---- MODULE Spec2Model ----
(***************************************************************************)
(* The remote script-execution client of the LEGO sorter                   *)
(* (utils/blender_mcp_client.py), its retry wrapper (run_lego_sorter.py)   *)
(* and the host they talk to.                                              *)
(*                                                                         *)
(* Time is counted in ticks, TicksPerSec to the second, from the entry of  *)
(* the execute_code call in progress: the code only uses differences of    *)
(* time.time().  Bytes on the wire are abstracted to tokens: a token is a  *)
(* run of bytes that is never cut by a recv.                               *)
(***************************************************************************)
EXTENDS Integers, Sequences, FiniteSets, TLC

VARIABLES
    \* BlenderMCPClient.execute_code: the call in progress
    pc,             \* "idle", "connect", "send", "loop", "recv", "parse", "ret"
    sock,           \* "none", "open", "closed"
    code,           \* the code argument
    timeout,        \* the effective timeout, in seconds
    is_debug,       \* BLENDER_MCP_DEBUG == "1"
    now,            \* the clock, in ticks
    deadline,
    last_notice,
    poll,           \* the timeout set on the socket for the next recv, in ticks
    buffer,
    response_text,  \* None until the loop breaks
    ret,            \* the value returned, once pc = "ret"
    outcome,        \* the return path taken
    heartbeats,     \* the clock at every heartbeat printed
    printed,        \* the text printed after "Result:", None when nothing was
    nsock,          \* sockets created by this call
    nconnect,       \* connect calls made by this call
    nrecv,          \* recv calls made by this call
    \* the connection of the call in progress
    sent,           \* the messages the client wrote, in order
    stream,         \* the bytes the host has still to deliver
    payload,        \* the result string carried by the response on the stream
    peerClosed,     \* the host closes once the stream is delivered
    listening,      \* the host accepts connections
    plan,           \* the response a scripted host writes: the bytes, where
                    \* they are cut into chunks, and how many were written
    \* the host
    pending,        \* requests written by the client, not yet started
    hostExec,       \* the request being executed, None when idle
    scene,          \* the scripts executed so far, in order
    store,          \* the value kept by the host between scripts
    \* the callers
    todo,           \* direct execute_code calls still to make
    rpc,            \* run_with_retries: "none", "attempt", "wait", "sleep", "done"
    i,
    attempts,
    script_exists,
    calls,          \* execute_script_file calls made by run_with_retries
    sleeps,         \* the waits slept, in seconds, in order
    result,         \* what run_with_retries returned, once rpc = "done"
    log,            \* one record per execute_code call that returned
    \* run_lego_sorter.main
    mpc,            \* "off", "start", "stage", "run", "end"
    stage,          \* the number of the stage at hand, in the order of main
    env_timeout,    \* BLENDER_MCP_TIMEOUT, None when unset
    skip_conveyor,  \* SKIP_CONVEYOR == "1"
    default_timeout,
    ran,            \* the stages run_with_retries returned from, with the result
    missing,        \* the stage scripts main did not find
    completed,      \* the completion message was printed
    \* the scene of the host, and the script running in it
    objects,        \* bpy.data.objects: name -> [type, colls, rb]
    collections,    \* bpy.data.collections: the names
    bpc,            \* "off", "idle", or the position in the script running
    worklist,       \* the objects a loop of the script has still to visit
    runs,           \* the scripts that ran to their end or raised, in order
    snap,           \* the objects when the last script was entered
    world,          \* the rigid body world and the frame range of the scene
    positioned,     \* the parts position_parts_above_bucket was applied to
    issues,         \* what validate_scene returned
    \* the file system seen by render_snapshot.py
    fs,             \* [root, dirs, files]: the renders root exists, the
                    \* directories and the files
    fs0,            \* fs when clear_renders_dir was entered
    failed,         \* the files os.remove failed on
    tried,          \* the bake methods start_physics_simulation has tried
    cam             \* position_camera_to_fit_bounds: position, distance, fill

vars == << pc, sock, code, timeout, is_debug, now, deadline, last_notice, poll,
           buffer, response_text, ret, outcome, heartbeats, printed, nsock,
           nconnect, nrecv, sent, stream, payload, peerClosed, listening, plan,
           pending, hostExec, scene, store, todo, rpc, i, attempts,
           script_exists, calls, sleeps, result, log, mpc, stage, env_timeout,
           skip_conveyor, default_timeout, ran, missing, completed, objects,
           collections,
           bpc, worklist, runs, snap, world, positioned, issues, fs, fs0,
           failed, tried, cam >>

callVars == << pc, sock, code, timeout, now, deadline, last_notice, poll, buffer,
               response_text, ret, outcome, heartbeats, printed, nsock, nconnect,
               nrecv >>
connVars == << sent, stream, payload, peerClosed >>
hostVars == << pending, hostExec, scene, store >>
runVars  == << rpc, i, attempts, calls, sleeps, result >>
mainVars == << mpc, stage, env_timeout, skip_conveyor, default_timeout, ran,
              missing, completed >>
sceneVars == << objects, collections, bpc, worklist, runs, snap, world,
               positioned, issues, fs, fs0, failed, tried, cam >>
\* what the scripts that only edit objects and collections leave alone
restVars == << world, positioned, issues, fs, fs0, failed, tried, cam >>
envVars  == << is_debug, listening, script_exists, plan, mainVars, sceneVars >>
\* the client side, left alone by the scripts running in the host
clientVars == << callVars, connVars, hostVars, runVars, todo, log, is_debug,
                listening, script_exists, plan, mainVars >>

\* an optional value: None, or Some(x)
None == <<>>
Some(x) == <<x>>

\* ------------------------------------------------------------------ bounds

TicksPerSec == 2
MaxTimeout == 7
MaxResp == 3
MaxJunk == 2
MaxVal == 2
MaxAttempts == 3
MaxLag == 1
\* the tokens a host writes to a call on a script file
MaxFileResp == 2

\* ------------------------------------------------- constants of the program

PollMaxSec == 2
IntervalDebugSec == 2
IntervalSec == 5
BackoffBase == 2
\* run_lego_sorter.main
DebugTimeoutSec == 30
DefaultTimeoutSec == 300
DebugSnapSec == 120
SnapSec == 420
RetryAttempts == 2

Sec(s) == s * TicksPerSec
\* 0.5 s, rounded up to a whole tick
HalfSec == (TicksPerSec + 1) \div 2

Max(a, b) == IF a >= b THEN a ELSE b
Min(a, b) == IF a <= b THEN a ELSE b

RECURSIVE Pow(_, _)
Pow(b, e) == IF e = 0 THEN 1 ELSE b * Pow(b, e - 1)

Last(s) == s[Len(s)]

SeqsUpTo(S, n) == UNION { [1..k -> S] : k \in 0..n }

\* ------------------------------------------------ response bytes, as tokens
\* OS  {"status": "success", ...}      OE  {"status": "error", ...}
\* OX  an object with another status   ON  an object with no status
\* V   a JSON value that is no object  G   bytes that are no JSON
\* PL PR  the two halves of an OS object cut between two JSON tokens
\* SP  whitespace other than a newline NL  a newline

Objects == {"OS", "OE", "OX", "ON"}
Values == Objects \cup {"V"}
Whitespace == {"SP", "NL"}
Tokens == Values \cup {"PL", "PR", "G"} \cup Whitespace

RECURSIVE lstrip(_)
lstrip(t) == IF t # <<>> /\ Head(t) \in Whitespace THEN lstrip(Tail(t)) ELSE t

RECURSIVE rstrip(_)
rstrip(t) ==
    IF t # <<>> /\ Last(t) \in Whitespace THEN rstrip(SubSeq(t, 1, Len(t) - 1)) ELSE t

strip(t) == rstrip(lstrip(t))

has_newline(b) == \E k \in 1..Len(b) : b[k] = "NL"

\* buffer.split(b"\n", 1)[0]
first_line(b) ==
    LET k == CHOOSE k \in 1..Len(b) : b[k] = "NL" /\ \A j \in 1..(k - 1) : b[j] # "NL"
    IN  SubSeq(b, 1, k - 1)

startswith_brace(t) == t # <<>> /\ Head(t) \in Objects \cup {"PL"}
endswith_brace(t) == t # <<>> /\ Last(t) \in Objects \cup {"PR"}

\* json.loads: the kind of value parsed, or "bad" when it raises
json_loads(t) ==
    LET u == strip(t)
    IN  IF Len(u) = 1 /\ u[1] \in Values THEN u[1]
        ELSE IF /\ Len(u) >= 2
                /\ u[1] = "PL"
                /\ Last(u) = "PR"
                /\ \A k \in 2..(Len(u) - 1) : u[k] \in Whitespace
             THEN "OS"
             ELSE "bad"

\* ---------------------------------------------------- request text and bytes
\* a   a plain character          n   the letter n
\* bs  a backslash                nl  a newline
\* q   a double quote             qm  a question mark
\* sur a lone surrogate code point (not encodable as UTF-8)
\* SET, GET  the text of a script that sets the value written after it, and
\*           of a script that prints the value

ValueChars == {"a", "n", "bs", "nl", "q", "qm", "sur"}
CodeChars == ValueChars \cup {"SET", "GET"}

\* the escaping, with a newline left as it is
escape_char_raw_nl(c) ==
    CASE c = "q"  -> <<"bs", "q">>
      [] c = "bs" -> <<"bs", "bs">>
      [] OTHER    -> <<c>>

\* the escaping, with a backslash left as it is
escape_char_raw_bs(c) ==
    CASE c = "nl" -> <<"bs", "n">>
      [] c = "q"  -> <<"bs", "q">>
      [] OTHER    -> <<c>>

escape_char(c) ==
    CASE c = "nl" -> <<"bs", "n">>
      [] c = "q"  -> <<"bs", "q">>
      [] c = "bs" -> <<"bs", "bs">>
      [] OTHER    -> <<c>>

RECURSIVE escape(_)
escape(s) == IF s = <<>> THEN <<>> ELSE escape_char(Head(s)) \o escape(Tail(s))

\* json.dumps(command, ensure_ascii=False)
json_dumps(c) == <<"env_open">> \o escape(c) \o <<"env_close">>

\* str.encode("utf-8", errors="replace")
utf8_encode(s) == [k \in 1..Len(s) |-> IF s[k] = "sur" THEN "qm" ELSE s[k]]

message(c) == utf8_encode(json_dumps(c) \o <<"nl">>)

\* str.replace("\\n", "\n")
RECURSIVE replace_bs_n(_)
replace_bs_n(s) ==
    IF Len(s) >= 2 /\ s[1] = "bs" /\ s[2] = "n"
    THEN <<"nl">> \o replace_bs_n(SubSeq(s, 3, Len(s)))
    ELSE IF s = <<>> THEN <<>> ELSE <<Head(s)>> \o replace_bs_n(Tail(s))

\* ------------------------------------------------------------- execute_code

\* the number of the call in progress
callId == Len(log) + 1

interval == IF is_debug THEN Sec(IntervalDebugSec) ELSE Sec(IntervalSec)

\* a return statement, or an except clause that returns
Return(value, how) ==
    /\ pc' = "ret"
    /\ ret' = value
    /\ outcome' = how

\* entry: the socket is created and its timeout set
OpenSocket(c, t) ==
    /\ pc' = "connect"
    /\ sock' = "open"
    /\ code' = c
    /\ timeout' = t
    /\ now' = 0
    /\ deadline' = 0
    /\ last_notice' = 0
    /\ poll' = Sec(t)
    /\ buffer' = <<>>
    /\ response_text' = None
    /\ ret' = FALSE
    /\ outcome' = "none"
    /\ heartbeats' = <<>>
    /\ printed' = None
    /\ nsock' = 1
    /\ nconnect' = 0
    /\ nrecv' = 0
    /\ sent' = <<>>
    /\ stream' = <<>>
    /\ payload' = <<>>
    /\ peerClosed' = FALSE

Connect ==
    /\ pc = "connect"
    /\ listening
    /\ nconnect' = nconnect + 1
    /\ pc' = "send"
    /\ UNCHANGED << sock, code, timeout, now, deadline, last_notice, poll, buffer,
                    response_text, ret, outcome, heartbeats, printed, nsock, nrecv >>
    /\ UNCHANGED << connVars, hostVars, runVars, envVars, todo, log >>

\* connect fails and the failure is swallowed: the call goes on to send
ConnectRefusedIgnored ==
    /\ pc = "connect"
    /\ ~listening
    /\ nconnect' = nconnect + 1
    /\ pc' = "send"
    /\ UNCHANGED << sock, code, timeout, now, deadline, last_notice, poll, buffer,
                    response_text, ret, outcome, heartbeats, printed, nsock, nrecv >>
    /\ UNCHANGED << connVars, hostVars, runVars, envVars, todo, log >>

\* connect raises ConnectionRefusedError, caught by "except Exception"
ConnectRefused ==
    /\ pc = "connect"
    /\ ~listening
    /\ nconnect' = nconnect + 1
    /\ Return(FALSE, "error")
    /\ UNCHANGED << sock, code, timeout, now, deadline, last_notice, poll, buffer,
                    response_text, heartbeats, printed, nsock, nrecv >>
    /\ UNCHANGED << connVars, hostVars, runVars, envVars, todo, log >>

\* the command is sent and the call returns without reading the response
SendCommandNoWait ==
    /\ pc = "send"
    /\ sent' = Append(sent, message(code))
    /\ pending' = Append(pending, [id |-> callId, bytes |-> message(code)])
    /\ deadline' = now + Sec(timeout)
    /\ buffer' = <<>>
    /\ last_notice' = now
    /\ response_text' = None
    /\ Return(TRUE, "success")
    /\ UNCHANGED << sock, code, timeout, now, poll, heartbeats, printed, nsock,
                    nconnect, nrecv >>
    /\ UNCHANGED << stream, payload, peerClosed, hostExec, scene, store >>
    /\ UNCHANGED << runVars, envVars, todo, log >>

\* the command is built, serialized and sent; the locals of the loop are set
SendCommand ==
    /\ pc = "send"
    /\ sent' = Append(sent, message(code))
    /\ pending' = Append(pending, [id |-> callId, bytes |-> message(code)])
    /\ deadline' = now + Sec(timeout)
    /\ buffer' = <<>>
    /\ last_notice' = now
    /\ response_text' = None
    /\ pc' = "loop"
    /\ UNCHANGED << sock, code, timeout, now, poll, ret, outcome, heartbeats,
                    printed, nsock, nconnect, nrecv >>
    /\ UNCHANGED << stream, payload, peerClosed, hostExec, scene, store >>
    /\ UNCHANGED << runVars, envVars, todo, log >>

\* the deadline test, by a deadline counted from the last notice instead
expired_since_notice == now - last_notice >= Sec(timeout)

\* the deadline test at the head of the loop
expired == now >= deadline

\* the head of the loop, with a cancel message written when the deadline passed
LoopCheckCancel ==
    /\ pc = "loop"
    /\ IF expired
       THEN /\ Return(FALSE, "timeout")
            /\ poll' = poll
            /\ sent' = Append(sent, <<"cancel", "nl">>)
       ELSE /\ poll' = Max(HalfSec, Min(Sec(PollMaxSec), deadline - now))
            /\ pc' = "recv"
            /\ UNCHANGED << ret, outcome, sent >>
    /\ UNCHANGED << sock, code, timeout, now, deadline, last_notice, buffer,
                    response_text, heartbeats, printed, nsock, nconnect, nrecv >>
    /\ UNCHANGED << stream, payload, peerClosed >>
    /\ UNCHANGED << hostVars, runVars, envVars, todo, log >>

\* the head of the loop: the deadline check and the per-iteration timeout
LoopCheck ==
    /\ pc = "loop"
    /\ IF expired
       THEN /\ Return(FALSE, "timeout")
            /\ poll' = poll
       ELSE /\ poll' = Max(HalfSec, Min(Sec(PollMaxSec), deadline - now))
            /\ pc' = "recv"
            /\ UNCHANGED << ret, outcome >>
    /\ UNCHANGED << sock, code, timeout, now, deadline, last_notice, buffer,
                    response_text, heartbeats, printed, nsock, nconnect, nrecv >>
    /\ UNCHANGED << connVars, hostVars, runVars, envVars, todo, log >>

\* the heartbeat test made when recv times out
heartbeat_due(t) == t - last_notice > interval

\* recv times out, and last_notice is not set when the heartbeat is printed
RecvTimeoutNoStamp ==
    /\ pc = "recv"
    /\ stream = <<>>
    /\ ~peerClosed
    /\ \E lag \in 0..MaxLag :
         LET t == now + poll + lag
         IN  /\ now' = t
             /\ IF heartbeat_due(t)
                THEN heartbeats' = Append(heartbeats, t)
                ELSE UNCHANGED heartbeats
    /\ nrecv' = nrecv + 1
    /\ pc' = "loop"
    /\ UNCHANGED << sock, code, timeout, deadline, last_notice, poll, buffer,
                    response_text, ret, outcome, printed, nsock, nconnect >>
    /\ UNCHANGED << connVars, hostVars, runVars, envVars, todo, log >>

\* recv raises socket.timeout: nothing arrived for poll ticks (and up to
\* MaxLag more before the clock is read again)
RecvTimeout ==
    /\ pc = "recv"
    /\ stream = <<>>
    /\ ~peerClosed
    /\ \E lag \in 0..MaxLag :
         LET t == now + poll + lag
         IN  /\ now' = t
             /\ IF heartbeat_due(t)
                THEN /\ heartbeats' = Append(heartbeats, t)
                     /\ last_notice' = t
                ELSE UNCHANGED << heartbeats, last_notice >>
    /\ nrecv' = nrecv + 1
    /\ pc' = "loop"
    /\ UNCHANGED << sock, code, timeout, deadline, poll, buffer, response_text,
                    ret, outcome, printed, nsock, nconnect >>
    /\ UNCHANGED << connVars, hostVars, runVars, envVars, todo, log >>

\* the buffer holds a response: a newline, or a complete JSON object
complete(b) ==
    \/ has_newline(b)
    \/ /\ startswith_brace(strip(b))
       /\ endswith_brace(strip(b))
       /\ json_loads(strip(b)) # "bad"

\* the text taken as the response from a complete buffer
extract(b) == IF has_newline(b) THEN strip(first_line(b)) ELSE strip(b)

\* recv returns what has arrived, after waiting less than the poll timeout
RecvChunk ==
    /\ pc = "recv"
    /\ stream # <<>>
    /\ \E d \in 0..(poll - 1) : now' = now + d
    /\ buffer' = buffer \o stream
    /\ stream' = <<>>
    /\ nrecv' = nrecv + 1
    /\ IF complete(buffer')
       THEN /\ response_text' = Some(extract(buffer'))
            /\ pc' = "parse"
       ELSE /\ pc' = "loop"
            /\ UNCHANGED response_text
    /\ UNCHANGED << sock, code, timeout, deadline, last_notice, poll, ret, outcome,
                    heartbeats, printed, nsock, nconnect >>
    /\ UNCHANGED << sent, payload, peerClosed >>
    /\ UNCHANGED << hostVars, runVars, envVars, todo, log >>

\* recv returns b"", and the loop goes on as after a chunk with no response
RecvClosedGoesOn ==
    /\ pc = "recv"
    /\ stream = <<>>
    /\ peerClosed
    /\ \E d \in 1..poll : now' = now + d
    /\ nrecv' = nrecv + 1
    /\ pc' = "loop"
    /\ UNCHANGED << sock, code, timeout, deadline, last_notice, poll, buffer, ret,
                    outcome, heartbeats, printed, nsock, nconnect, response_text >>
    /\ UNCHANGED << connVars, hostVars, runVars, envVars, todo, log >>

\* recv returns b"": the host closed the connection
RecvClosed ==
    /\ pc = "recv"
    /\ stream = <<>>
    /\ peerClosed
    /\ \E d \in 0..(poll - 1) : now' = now + d
    /\ nrecv' = nrecv + 1
    /\ response_text' = Some(strip(buffer))
    /\ pc' = "parse"
    /\ UNCHANGED << sock, code, timeout, deadline, last_notice, poll, buffer, ret,
                    outcome, heartbeats, printed, nsock, nconnect >>
    /\ UNCHANGED << connVars, hostVars, runVars, envVars, todo, log >>

\* the verdict, with a missing status taken as success
verdict_default_success(text) ==
    LET v == json_loads(text)
    IN  CASE v = "bad" -> [ret |-> FALSE, how |-> "error"]
          [] v = "V"   -> [ret |-> FALSE, how |-> "error"]
          [] v \in {"OS", "ON"} -> [ret |-> TRUE, how |-> "success"]
          [] OTHER     -> [ret |-> FALSE, how |-> "failed"]

\* the verdict, with a text that is no JSON taken as a plain success message
verdict_plain_text(text) ==
    LET v == json_loads(text)
    IN  CASE v = "bad" -> [ret |-> TRUE, how |-> "success"]
          [] v = "V"   -> [ret |-> FALSE, how |-> "error"]
          [] v = "OS"  -> [ret |-> TRUE, how |-> "success"]
          [] OTHER     -> [ret |-> FALSE, how |-> "failed"]

\* the value execute_code returns for a response text, with the return path
verdict(text) ==
    LET v == json_loads(text)
    IN  CASE v = "bad" -> [ret |-> FALSE, how |-> "error"]
          [] v = "V"   -> [ret |-> FALSE, how |-> "error"]
          [] v = "OS"  -> [ret |-> TRUE, how |-> "success"]
          [] OTHER     -> [ret |-> FALSE, how |-> "failed"]

\* after the loop: the socket is closed and the response parsed.  An empty
\* response raises TimeoutError, which "except socket.timeout" catches where
\* socket.timeout is an alias of TimeoutError, and "except Exception" elsewhere
ParseResponse ==
    /\ pc = "parse"
    /\ sock' = "closed"
    /\ IF response_text[1] = <<>>
       THEN /\ \E how \in {"timeout", "error"} : Return(FALSE, how)
            /\ UNCHANGED printed
       ELSE /\ Return(verdict(response_text[1]).ret, verdict(response_text[1]).how)
            /\ printed' = IF verdict(response_text[1]).ret
                          THEN Some(replace_bs_n(payload))
                          ELSE printed
    /\ UNCHANGED << code, timeout, now, deadline, last_notice, poll, buffer,
                    response_text, heartbeats, nsock, nconnect, nrecv >>
    /\ UNCHANGED << connVars, hostVars, runVars, envVars, todo, log >>

\* what is kept of a call that returned
record ==
    [ret |-> ret, outcome |-> outcome, code |-> code, sent |-> sent,
     printed |-> printed, nsock |-> nsock, timeout |-> timeout,
     answered |-> response_text # None /\ response_text # Some(<<>>)]

\* -------------------------------------------------- direct execute_code calls

DirectCall ==
    /\ rpc = "none"
    /\ pc = "idle"
    /\ todo # <<>>
    /\ OpenSocket(Head(todo).code, Head(todo).timeout)
    /\ todo' = Tail(todo)
    /\ UNCHANGED << hostVars, runVars, envVars, log >>

DirectReturn ==
    /\ rpc = "none"
    /\ pc = "ret"
    /\ pc' = "idle"
    /\ log' = Append(log, record)
    /\ UNCHANGED << sock, code, timeout, now, deadline, last_notice, poll, buffer,
                    response_text, ret, outcome, heartbeats, printed, nsock,
                    nconnect, nrecv >>
    /\ UNCHANGED << connVars, hostVars, runVars, envVars, todo >>

\* -------------------------------------------------------- run_with_retries

\* the wait before attempt k + 1
backoff(k) == Pow(BackoffBase, k)

\* a sleep after every failed attempt, the last included
retry_after_each(k) == k <= attempts

\* a sleep follows failed attempt k
retry_after(k) == k < attempts

\* execute_script_file returns False before execute_code is called: the file
\* is not there, or open or read raises and the except clause returns
NoCall(how) ==
    /\ Return(FALSE, how)
    /\ nsock' = 0
    /\ nconnect' = 0
    /\ nrecv' = 0
    /\ sent' = <<>>
    /\ heartbeats' = <<>>
    /\ printed' = None
    /\ UNCHANGED << sock, code, timeout, now, deadline, last_notice, poll, buffer,
                    response_text, stream, payload, peerClosed >>

\* one turn of the for loop: execute_script_file is called.  A missing script
\* file returns False without a call of execute_code
RunAttempt ==
    /\ rpc = "attempt"
    /\ pc = "idle"
    /\ IF i > attempts
       THEN /\ result' = FALSE
            /\ rpc' = "done"
            /\ UNCHANGED << callVars, connVars, calls >>
       ELSE /\ calls' = calls + 1
            /\ rpc' = "wait"
            /\ UNCHANGED result
            /\ IF script_exists
               THEN OpenSocket(code, timeout)
               ELSE NoCall("nofile")
    /\ UNCHANGED << i, attempts, sleeps >>
    /\ UNCHANGED << hostVars, envVars, todo, log >>

\* an attempt whose script file cannot be read, the exception let go
ReadFailsRaises ==
    /\ rpc = "attempt"
    /\ pc = "idle"
    /\ i <= attempts
    /\ script_exists
    /\ calls' = calls + 1
    /\ rpc' = "wait"
    /\ pc' = "raised"
    /\ outcome' = "exception"
    /\ nsock' = 0
    /\ nconnect' = 0
    /\ nrecv' = 0
    /\ sent' = <<>>
    /\ heartbeats' = <<>>
    /\ printed' = None
    /\ UNCHANGED << sock, code, timeout, now, deadline, last_notice, poll, buffer,
                    response_text, ret, stream, payload, peerClosed >>
    /\ UNCHANGED << i, attempts, sleeps, result >>
    /\ UNCHANGED << hostVars, envVars, todo, log >>

\* an attempt whose script file is there and cannot be read: open or read
\* raises, the except clause of execute_script_file returns False
ReadFails ==
    /\ rpc = "attempt"
    /\ pc = "idle"
    /\ i <= attempts
    /\ script_exists
    /\ calls' = calls + 1
    /\ rpc' = "wait"
    /\ NoCall("unreadable")
    /\ UNCHANGED << i, attempts, sleeps, result >>
    /\ UNCHANGED << hostVars, envVars, todo, log >>

\* the call returned, and its result is looked at only after the last attempt
RunCheckNoStop ==
    /\ rpc = "wait"
    /\ pc = "ret"
    /\ pc' = "idle"
    /\ log' = Append(log, record)
    /\ IF retry_after(i)
       THEN /\ rpc' = "sleep"
            /\ UNCHANGED << i, result >>
       ELSE IF ret
            THEN /\ result' = TRUE
                 /\ rpc' = "done"
                 /\ UNCHANGED i
            ELSE /\ i' = i + 1
                 /\ rpc' = "attempt"
                 /\ UNCHANGED result
    /\ UNCHANGED << sock, code, timeout, now, deadline, last_notice, poll, buffer,
                    response_text, ret, outcome, heartbeats, printed, nsock,
                    nconnect, nrecv >>
    /\ UNCHANGED << attempts, calls, sleeps >>
    /\ UNCHANGED << connVars, hostVars, envVars, todo >>

\* the call returned: return True, or sleep, or leave the loop
RunCheck ==
    /\ rpc = "wait"
    /\ pc = "ret"
    /\ pc' = "idle"
    /\ log' = Append(log, record)
    /\ IF ret
       THEN /\ result' = TRUE
            /\ rpc' = "done"
            /\ UNCHANGED i
       ELSE IF retry_after(i)
            THEN /\ rpc' = "sleep"
                 /\ UNCHANGED << i, result >>
            ELSE /\ i' = i + 1
                 /\ rpc' = "attempt"
                 /\ UNCHANGED result
    /\ UNCHANGED << sock, code, timeout, now, deadline, last_notice, poll, buffer,
                    response_text, ret, outcome, heartbeats, printed, nsock,
                    nconnect, nrecv >>
    /\ UNCHANGED << attempts, calls, sleeps >>
    /\ UNCHANGED << connVars, hostVars, envVars, todo >>

RunSleep ==
    /\ rpc = "sleep"
    /\ sleeps' = Append(sleeps, backoff(i))
    /\ i' = i + 1
    /\ rpc' = "attempt"
    /\ UNCHANGED << attempts, calls, result >>
    /\ UNCHANGED << callVars, connVars, hostVars, envVars, todo, log >>

\* ------------------------------------------------------ run_lego_sorter.main

\* the stage scripts, in the order main runs them
Stages ==
    << "clear_scene.py", "create_sorting_bucket.py", "create_conveyor_belt.py",
       "import_lego_parts.py", "animate_lego_physics.py", "setup_lighting.py",
       "render_snapshot.py" >>

\* the import of the parts is run with retries too, and its failure ends the run
RequiredWithParts ==
    {"clear_scene.py", "create_sorting_bucket.py", "create_conveyor_belt.py",
     "import_lego_parts.py"}

\* the stages run with retries, whose failure ends the run
Required == {"clear_scene.py", "create_sorting_bucket.py", "create_conveyor_belt.py"}

\* only a missing file of a stage run with retries ends the run
NeedsFileRequiredOnly == Required

\* the stages whose missing file ends the run
NeedsFile == Required \cup {"import_lego_parts.py", "animate_lego_physics.py"}

\* int(os.getenv("BLENDER_MCP_TIMEOUT", "30" if is_debug else "300"))
read_default_timeout ==
    IF env_timeout # None THEN env_timeout[1]
    ELSE IF is_debug THEN DebugTimeoutSec ELSE DefaultTimeoutSec

\* the attempts of every stage, all with retries
stage_attempts_all_retry(s) == RetryAttempts

\* the attempts argument main passes for stage s
stage_attempts(s) ==
    IF s \in Required THEN (IF is_debug THEN 1 ELSE RetryAttempts) ELSE 1

\* the timeout of every stage, with no floor for the snapshot
stage_timeout_no_floor(s) == default_timeout

\* the timeout argument main passes for stage s
stage_timeout(s) ==
    IF s = "render_snapshot.py"
    THEN Max(default_timeout, IF is_debug THEN DebugSnapSec ELSE SnapSec)
    ELSE default_timeout

\* no stage is skipped
skipped_never(s) == FALSE

\* the stage is skipped
skipped(s) == s = "create_conveyor_belt.py" /\ skip_conveyor

\* the environment is read, the client built and the connection tested
MainStart ==
    /\ mpc = "start"
    /\ default_timeout' = read_default_timeout
    /\ IF listening
       THEN mpc' = "stage" /\ stage' = 1
       ELSE mpc' = "end" /\ UNCHANGED stage
    /\ UNCHANGED << env_timeout, skip_conveyor, ran, missing, completed >>
    /\ UNCHANGED << is_debug, listening, script_exists, plan >>
    /\ UNCHANGED << callVars, connVars, hostVars, runVars, todo, log >>
    /\ UNCHANGED sceneVars

\* the next stage: skipped, or its file is missing, or run_with_retries is
\* called on it
MainStage ==
    /\ mpc = "stage"
    /\ LET s == Stages[stage]
       IN  IF skipped(s)
           THEN /\ stage' = stage + 1
                /\ UNCHANGED << mpc, script_exists, runVars, code, timeout, missing,
                                completed >>
           ELSE /\ script_exists' \in BOOLEAN
                /\ missing' = IF script_exists' THEN missing ELSE missing \cup {s}
                /\ IF script_exists'
                   THEN /\ mpc' = "run"
                        /\ rpc' = "attempt"
                        /\ i' = 1
                        /\ attempts' = stage_attempts(s)
                        /\ calls' = 0
                        /\ sleeps' = <<>>
                        /\ code' = <<s>>
                        /\ timeout' = stage_timeout(s)
                        /\ UNCHANGED << stage, result, completed >>
                   ELSE /\ IF s \in NeedsFile \/ stage = Len(Stages)
                           THEN mpc' = "end" /\ UNCHANGED stage
                           ELSE stage' = stage + 1 /\ UNCHANGED mpc
                        /\ completed' = (s \notin NeedsFile /\ stage = Len(Stages))
                        /\ UNCHANGED << runVars, code, timeout >>
    /\ UNCHANGED << env_timeout, skip_conveyor, default_timeout, ran >>
    /\ UNCHANGED << is_debug, listening, plan >>
    /\ UNCHANGED << pc, sock, now, deadline, last_notice, poll, buffer,
                    response_text, ret, outcome, heartbeats, printed, nsock,
                    nconnect, nrecv >>
    /\ UNCHANGED << connVars, hostVars, todo, log >>
    /\ UNCHANGED sceneVars

\* run_with_retries returned: the run ends, or goes on to the next stage
MainCheck ==
    /\ mpc = "run"
    /\ rpc = "done"
    /\ rpc' = "none"
    /\ ran' = Append(ran, [script |-> Stages[stage], ok |-> result])
    /\ IF (~result /\ Stages[stage] \in Required) \/ stage = Len(Stages)
       THEN mpc' = "end" /\ UNCHANGED stage
       ELSE mpc' = "stage" /\ stage' = stage + 1
    /\ completed' = (stage = Len(Stages))
    /\ UNCHANGED << i, attempts, calls, sleeps, result >>
    /\ UNCHANGED << env_timeout, skip_conveyor, default_timeout, missing >>
    /\ UNCHANGED << is_debug, listening, script_exists, plan >>
    /\ UNCHANGED << callVars, connVars, hostVars, todo, log >>
    /\ UNCHANGED sceneVars

\* ------------------------------------------------------------------ the host
\* The host is not part of the repository.  It reads one line per connection,
\* runs the code of the commands it received one at a time, in order, and
\* answers on the connection of the command when the code has run.

wire_line(b) ==
    LET k == CHOOSE k \in 1..Len(b) : b[k] = "nl" /\ \A j \in 1..(k - 1) : b[j] # "nl"
    IN  SubSeq(b, 1, k - 1)

RECURSIVE escaped_ok(_)
escaped_ok(s) ==
    IF s = <<>> THEN TRUE
    ELSE IF Head(s) = "bs"
         THEN /\ Len(s) >= 2
              /\ s[2] \in {"n", "q", "bs"}
              /\ escaped_ok(SubSeq(s, 3, Len(s)))
         ELSE /\ Head(s) \notin {"q", "nl", "env_open", "env_close"}
              /\ escaped_ok(Tail(s))

RECURSIVE unescape(_)
unescape(s) ==
    IF s = <<>> THEN <<>>
    ELSE IF Head(s) = "bs"
         THEN << CASE s[2] = "n" -> "nl" [] s[2] = "q" -> "q" [] OTHER -> "bs" >>
              \o unescape(SubSeq(s, 3, Len(s)))
         ELSE <<Head(s)>> \o unescape(Tail(s))

\* the code the host finds in params.code of the first line written to it, or
\* None when that line is no execute_code command
host_decode(b) ==
    IF ~ \E k \in 1..Len(b) : b[k] = "nl" THEN None
    ELSE LET l == wire_line(b)
             m == SubSeq(l, 2, Len(l) - 1)
         IN  IF Len(l) >= 2 /\ Head(l) = "env_open" /\ Last(l) = "env_close"
                /\ escaped_ok(m)
             THEN Some(unescape(m))
             ELSE None

HostStart ==
    /\ hostExec = None
    /\ pending # <<>>
    /\ hostExec' = Some(Head(pending))
    /\ pending' = Tail(pending)
    /\ UNCHANGED << scene, store >>
    /\ UNCHANGED << callVars, connVars, runVars, envVars, todo, log >>

\* the client of the command still reads its connection
reading(id) == id = callId /\ pc \in {"loop", "recv"}

\* the code has run: its effects are in the scene, and the answer is written to
\* the connection of the command if the client still reads it
HostFinish(ok) ==
    /\ hostExec # None
    /\ LET req == hostExec[1]
           c == host_decode(req.bytes)
           good == ok /\ c # None
           out == IF good /\ c[1] = <<"GET">> THEN store ELSE <<>>
       IN  /\ scene' = IF good
                       THEN Append(scene, [id |-> req.id, code |-> c[1],
                                           returned |-> req.id <= Len(log)])
                       ELSE scene
           /\ store' = IF good /\ c[1] # <<>> /\ Head(c[1]) = "SET"
                       THEN Tail(c[1])
                       ELSE store
           /\ IF reading(req.id)
              THEN /\ stream' = stream \o << IF good THEN "OS" ELSE "OE", "NL" >>
                   /\ payload' = out
              ELSE UNCHANGED << stream, payload >>
    /\ hostExec' = None
    /\ UNCHANGED << pending, sent, peerClosed >>
    /\ UNCHANGED << callVars, runVars, envVars, todo, log >>

\* a host that writes any bytes in any pieces, and may close the connection
HostWrite(tok, max) ==
    /\ pc \in {"loop", "recv"}
    /\ ~peerClosed
    /\ Len(buffer) + Len(stream) < max
    /\ stream' = Append(stream, tok)
    /\ UNCHANGED << sent, payload, peerClosed >>
    /\ UNCHANGED << callVars, hostVars, runVars, envVars, todo, log >>

HostClose ==
    /\ pc \in {"loop", "recv"}
    /\ ~peerClosed
    /\ peerClosed' = TRUE
    /\ UNCHANGED << sent, stream, payload >>
    /\ UNCHANGED << callVars, hostVars, runVars, envVars, todo, log >>

\* the end of the next chunk of the scripted response
next_cut ==
    IF \E c \in plan.cuts : c > plan.at
    THEN CHOOSE c \in plan.cuts : c > plan.at /\ \A d \in plan.cuts : d > plan.at => c <= d
    ELSE Len(plan.all)

\* a host that writes the scripted response chunk by chunk, the next chunk
\* once the client has read the one before
HostChunk ==
    /\ pc \in {"loop", "recv"}
    /\ stream = <<>>
    /\ plan.at < Len(plan.all)
    /\ stream' = SubSeq(plan.all, plan.at + 1, next_cut)
    /\ plan' = [plan EXCEPT !.at = next_cut]
    /\ UNCHANGED << sent, payload, peerClosed >>
    /\ UNCHANGED << callVars, hostVars, runVars, todo, log >>
    /\ UNCHANGED << is_debug, listening, script_exists, mainVars, sceneVars >>

\* ------------------------------------------------------ the scene of the host
\* The scripts act on the scene through the scripting API of the host.  A
\* name is a pair of a base and a number: <<b, 0>> is "b", and <<b, k>> is
\* "b.00k", the name the host gives when "b" is taken.  "Scene" stands for the
\* main collection of the scene, which is not in bpy.data.collections.

Nm(b) == <<b, 0>>

Master == Nm("Scene")

\* the name the host gives to a new datablock asked to be called b
free_name(b, taken) ==
    <<b, CHOOSE k \in 0..Cardinality(taken) :
            /\ <<b, k>> \notin taken
            /\ \A j \in 0..(k - 1) : <<b, j>> \in taken>>

Restrict(f, S) == [n \in S |-> f[n]]

With(f, n, r) == [m \in DOMAIN f \cup {n} |-> IF m = n THEN r ELSE f[m]]

NoObjects == Restrict(<<>>, {})

\* collection.objects
members(objs, c) == { n \in DOMAIN objs : c \in objs[n].colls }

\* bpy.data.objects.remove(obj, do_unlink=True), for every obj of S
objects_remove(objs, S) == Restrict(objs, DOMAIN objs \ S)

\* bpy.data.collections.remove(c): its objects stay, unlinked from it
collections_remove(objs, c) ==
    [n \in DOMAIN objs |-> [objs[n] EXCEPT !.colls = @ \ {c}]]

\* the names with base b
named(objs, b) == { n \in DOMAIN objs : n[1] = b }

\* the scene of a new file of the host: no rigid body world, frames 1 to 250
NewWorld ==
    [rbw |-> FALSE, substeps |-> 10, iterations |-> 10,
     frame_start |-> 1, frame_end |-> 250]

NoFiles == [root |-> FALSE, dirs |-> {}, files |-> {}]

\* no camera is being placed
NoCam == [pc |-> "off", distance |-> 0, old |-> 0, fill |-> 0, iters |-> 0]

SceneOff ==
    /\ objects = NoObjects
    /\ collections = {}
    /\ bpc = "off"
    /\ worklist = {}
    /\ runs = <<>>
    /\ snap = NoObjects
    /\ world = NewWorld
    /\ positioned = {}
    /\ issues = {}
    /\ fs = NoFiles
    /\ fs0 = NoFiles
    /\ failed = {}
    /\ tried = <<>>
    /\ cam = NoCam

\* a script came to its end, or raised; kept are the collections it failed
\* to remove
Finish(s, ok, kept) ==
    /\ bpc' = "idle"
    /\ runs' = Append(runs, [script |-> s, ok |-> ok, kept |-> kept])

\* ------------------------------------------------- create_sorting_bucket.py

\* main of create_sorting_bucket.py, every host operation succeeding: the
\* objects of the "bucket" collection and the collection are removed; the
\* bucket is created and its collider, a copy linked to the main collection of
\* the scene; a new "bucket" collection is made and the bucket moved into it
bucket_main(objs, cols) ==
    LET c == Nm("bucket")
        o1 == IF c \in cols THEN objects_remove(objs, members(objs, c)) ELSE objs
        c1 == cols \ {c}
        bname == free_name("Sorting_Bucket", DOMAIN o1)
        o2 == With(o1, bname, [type |-> "MESH", colls |-> {Master}, rb |-> "none"])
        cname == free_name("Sorting_Bucket_Collider", DOMAIN o2)
        o3 == With(o2, cname, [type |-> "MESH", colls |-> {Master}, rb |-> "PASSIVE"])
        newc == free_name("bucket", c1)
        o4 == [o3 EXCEPT ![bname] = [type |-> "MESH", colls |-> {newc}, rb |-> "PASSIVE"]]
    IN  [objects |-> o4, collections |-> c1 \cup {newc}]

RunBucket ==
    /\ bpc = "idle"
    /\ objects' = bucket_main(objects, collections).objects
    /\ collections' = bucket_main(objects, collections).collections
    /\ Finish("create_sorting_bucket.py", TRUE, {})
    /\ snap' = objects
    /\ world' = [world EXCEPT !.rbw = TRUE]
    /\ UNCHANGED << worklist, positioned, issues, fs, fs0, failed, tried, cam >>
    /\ UNCHANGED clientVars

\* ------------------------------------------------------------ clear_scene.py

\* main is entered: remove_all_objects takes list(bpy.data.objects)
ClearStart ==
    /\ bpc = "idle"
    /\ bpc' = "remove_all_objects"
    /\ worklist' = DOMAIN objects
    /\ snap' = objects
    /\ UNCHANGED << objects, collections, runs >>
    /\ UNCHANGED restVars
    /\ UNCHANGED clientVars

\* one turn of the loop of remove_all_objects: the object is removed, or the
\* removal fails and RuntimeError ends the script
ClearRemove ==
    /\ bpc = "remove_all_objects"
    /\ worklist # {}
    /\ \E n \in worklist :
         \/ /\ objects' = objects_remove(objects, {n})
            /\ worklist' = worklist \ {n}
            /\ UNCHANGED << bpc, runs, snap >>
         \/ /\ Finish("clear_scene.py", FALSE, {})
            /\ worklist' = {}
            /\ UNCHANGED << objects, snap >>
    /\ UNCHANGED collections
    /\ UNCHANGED restVars
    /\ UNCHANGED clientVars

\* clean_empty_collections, with the collections left in place
ClearCollectionsKeepsAll ==
    /\ bpc = "remove_all_objects"
    /\ worklist = {}
    /\ collections' = collections
    /\ Finish("clear_scene.py", TRUE, {})
    /\ UNCHANGED << objects, worklist, snap >>
    /\ UNCHANGED restVars
    /\ UNCHANGED clientVars

\* clean_empty_collections: every collection with no objects is removed,
\* but for those whose removal fails, which are skipped
ClearCollections ==
    /\ bpc = "remove_all_objects"
    /\ worklist = {}
    /\ \E kept \in SUBSET collections :
         /\ collections' = { c \in collections : members(objects, c) # {} } \cup kept
         /\ Finish("clear_scene.py", TRUE, kept)
    /\ UNCHANGED << objects, worklist, snap >>
    /\ UNCHANGED restVars
    /\ UNCHANGED clientVars

\* ---------------------------------------------------------- setup_lighting.py

\* the lights of setup_lighting.py, by the name asked for
Lights == <<"Key_Light", "Fill_Light", "Rim_Light">>

RECURSIVE add_lights(_, _, _)
add_lights(objs, c, k) ==
    IF k > Len(Lights) THEN objs
    ELSE add_lights(With(objs, free_name(Lights[k], DOMAIN objs),
                         [type |-> "LIGHT", colls |-> {c}, rb |-> "none"]),
                    c, k + 1)

\* main of setup_lighting.py, with the lights of earlier runs left in place
lighting_main_keeps(objs, cols) ==
    [objects |-> add_lights(objs, Nm("lighting"), 1),
     collections |-> cols \cup {Nm("lighting")}]

\* main of setup_lighting.py: the "lighting" collection is looked up or
\* created, its objects are removed, and the three lights are created and
\* linked to it
lighting_main(objs, cols) ==
    LET c == Nm("lighting")
        o1 == objects_remove(objs, members(objs, c))
    IN  [objects |-> add_lights(o1, c, 1), collections |-> cols \cup {c}]

RunLighting ==
    /\ bpc = "idle"
    /\ objects' = lighting_main(objects, collections).objects
    /\ collections' = lighting_main(objects, collections).collections
    /\ Finish("setup_lighting.py", TRUE, {})
    /\ snap' = objects
    /\ UNCHANGED worklist
    /\ UNCHANGED restVars
    /\ UNCHANGED clientVars

\* ------------------------------------------------------------ specifications

\* no scripted response
NoPlan == [all |-> <<>>, cuts |-> {}, at |-> 0]

InitCommon ==
    /\ pc = "idle"
    /\ sock = "none"
    /\ now = 0
    /\ deadline = 0
    /\ last_notice = 0
    /\ poll = 0
    /\ buffer = <<>>
    /\ response_text = None
    /\ ret = FALSE
    /\ outcome = "none"
    /\ heartbeats = <<>>
    /\ printed = None
    /\ nsock = 0
    /\ nconnect = 0
    /\ nrecv = 0
    /\ sent = <<>>
    /\ stream = <<>>
    /\ payload = <<>>
    /\ peerClosed = FALSE
    /\ pending = <<>>
    /\ hostExec = None
    /\ scene = <<>>
    /\ store = <<>>
    /\ i = 1
    /\ calls = 0
    /\ sleeps = <<>>
    /\ result = FALSE
    /\ log = <<>>
    /\ stage = 0
    /\ default_timeout = 0
    /\ ran = <<>>
    /\ missing = {}
    /\ completed = FALSE

Client ==
    \/ Connect
    \/ ConnectRefused
    \/ SendCommand
    \/ LoopCheck
    \/ RecvTimeout
    \/ RecvChunk
    \/ RecvClosed
    \/ ParseResponse

\* run_with_retries on one script, against a host that runs it
Init ==
    /\ InitCommon
    /\ plan = NoPlan
    /\ SceneOff
    /\ mpc = "off"
    /\ env_timeout = None
    /\ skip_conveyor = FALSE
    /\ code = <<"a">>
    /\ timeout = 1
    /\ is_debug \in BOOLEAN
    /\ listening \in BOOLEAN
    /\ script_exists \in BOOLEAN
    /\ attempts \in 0..MaxAttempts
    /\ rpc = "attempt"
    /\ todo = <<>>

Next ==
    \/ RunAttempt
    \/ ReadFails
    \/ RunCheck
    \/ RunSleep
    \/ Client
    \/ HostStart
    \/ HostFinish(TRUE)
    \/ HostFinish(FALSE)
    \/ HostClose

Spec == Init /\ [][Next]_vars

\* one execute_code call, against a host that writes anything
InitCall ==
    /\ InitCommon
    /\ plan = NoPlan
    /\ SceneOff
    /\ mpc = "off"
    /\ env_timeout = None
    /\ skip_conveyor = FALSE
    /\ code = <<>>
    /\ timeout = 1
    /\ is_debug = FALSE
    /\ listening \in BOOLEAN
    /\ script_exists = TRUE
    /\ attempts = 0
    /\ rpc = "none"
    /\ todo = << [code |-> <<"a">>, timeout |-> 1] >>

NextCall ==
    \/ DirectCall
    \/ DirectReturn
    \/ Client
    \/ \E tok \in Tokens : HostWrite(tok, MaxResp)
    \/ HostClose

SpecCall == InitCall /\ [][NextCall]_vars

\* one execute_script_file call, on a script file that is there or not and
\* can be read or not, against a host that writes anything
InitFile ==
    /\ InitCommon
    /\ plan = NoPlan
    /\ SceneOff
    /\ mpc = "off"
    /\ env_timeout = None
    /\ skip_conveyor = FALSE
    /\ code = <<"a">>
    /\ timeout = 1
    /\ is_debug = FALSE
    /\ listening \in BOOLEAN
    /\ script_exists \in BOOLEAN
    /\ attempts = 1
    /\ rpc = "attempt"
    /\ todo = <<>>

NextFile ==
    \/ RunAttempt
    \/ ReadFails
    \/ RunCheck
    \/ Client
    \/ \E tok \in Tokens : HostWrite(tok, MaxFileResp)
    \/ HostClose

SpecFile == InitFile /\ [][NextFile]_vars

\* one execute_code call with any timeout, against a host that is silent, or
\* writes bytes that are no response, or answers late
InitTime ==
    /\ InitCommon
    /\ plan = NoPlan
    /\ SceneOff
    /\ mpc = "off"
    /\ env_timeout = None
    /\ skip_conveyor = FALSE
    /\ code = <<>>
    /\ timeout = 1
    /\ is_debug \in BOOLEAN
    /\ listening = TRUE
    /\ script_exists = TRUE
    /\ attempts = 0
    /\ rpc = "none"
    /\ \E t \in 1..MaxTimeout : todo = << [code |-> <<"a">>, timeout |-> t] >>

NextTime ==
    \/ DirectCall
    \/ DirectReturn
    \/ Connect
    \/ SendCommand
    \/ LoopCheck
    \/ RecvTimeout
    \/ RecvChunk
    \/ ParseResponse
    \/ \E tok \in {"G", "OS"} : HostWrite(tok, MaxJunk)

SpecTime == InitTime /\ [][NextTime]_vars

\* the client runs on: a step that can be taken is taken
FairTime == SpecTime /\ WF_vars(NextTime)

\* two execute_code calls in a row, the first of a script that sets a value
\* and the second of a script that prints it
InitWire ==
    /\ InitCommon
    /\ plan = NoPlan
    /\ SceneOff
    /\ mpc = "off"
    /\ env_timeout = None
    /\ skip_conveyor = FALSE
    /\ code = <<>>
    /\ timeout = 1
    /\ is_debug = FALSE
    /\ listening = TRUE
    /\ script_exists = TRUE
    /\ attempts = 0
    /\ rpc = "none"
    /\ \E v \in SeqsUpTo(ValueChars, MaxVal) :
         todo = << [code |-> <<"SET">> \o v, timeout |-> 1],
                   [code |-> <<"GET">>, timeout |-> 1] >>

NextWire ==
    \/ DirectCall
    \/ DirectReturn
    \/ Connect
    \/ SendCommand
    \/ LoopCheck
    \/ RecvTimeout
    \/ RecvChunk
    \/ ParseResponse
    \/ HostStart
    \/ HostFinish(TRUE)

SpecWire == InitWire /\ [][NextWire]_vars

\* the tokens of a response line before its newline
MaxLine == 2

\* the scripted responses: a line, its newline and what may follow it, cut
\* into chunks in every way
Plans ==
    { [all |-> l \o <<"NL">> \o r, cuts |-> c, at |-> 0] :
        l \in SeqsUpTo(Tokens \ {"NL"}, MaxLine),
        r \in {<<>>, <<"OS">>, <<"G">>},
        c \in SUBSET (1..(MaxLine + 1)) }

\* one execute_code call, against a host that writes a response line in
\* chunks
InitChunks ==
    /\ InitCommon
    /\ plan \in { q \in Plans : \A c \in q.cuts : c < Len(q.all) }
    /\ SceneOff
    /\ mpc = "off"
    /\ env_timeout = None
    /\ skip_conveyor = FALSE
    /\ code = <<>>
    /\ timeout = 1
    /\ is_debug = FALSE
    /\ listening = TRUE
    /\ script_exists = TRUE
    /\ attempts = 0
    /\ rpc = "none"
    /\ todo = << [code |-> <<"a">>, timeout |-> 1] >>

NextChunks ==
    \/ DirectCall
    \/ DirectReturn
    \/ Connect
    \/ SendCommand
    \/ LoopCheck
    \/ RecvTimeout
    \/ RecvChunk
    \/ ParseResponse
    \/ HostChunk

SpecChunks == InitChunks /\ [][NextChunks]_vars

\* an integer value of BLENDER_MCP_TIMEOUT: below, between and above the
\* floors of the snapshot timeout
EnvTimeouts == {DebugSnapSec - 1, SnapSec - 1, SnapSec + 1}

\* one run of main, against a host that answers every request within the
\* first poll, with a success or with an error
InitMain ==
    /\ InitCommon
    /\ plan = NoPlan
    /\ SceneOff
    /\ mpc = "start"
    /\ env_timeout \in {None} \cup { Some(v) : v \in EnvTimeouts }
    /\ skip_conveyor \in BOOLEAN
    /\ code = <<>>
    /\ timeout = 1
    /\ is_debug \in BOOLEAN
    /\ listening \in BOOLEAN
    /\ script_exists = TRUE
    /\ attempts = 0
    /\ rpc = "none"
    /\ todo = <<>>

NextMain ==
    \/ MainStart
    \/ MainStage
    \/ MainCheck
    \/ RunAttempt
    \/ RunCheck
    \/ RunSleep
    \/ Connect
    \/ SendCommand
    \/ LoopCheck
    \/ RecvChunk
    \/ ParseResponse
    \/ HostStart
    \/ HostFinish(TRUE)
    \/ HostFinish(FALSE)

SpecMain == InitMain /\ [][NextMain]_vars

\* main runs on and the host answers: a step that can be taken is taken
FairMain == SpecMain /\ WF_vars(NextMain)

\* the scripts run in one session of the host
MaxRuns == 3


\* an object of a starting scene: absent, or linked to one collection
Placed(type, rb, cols) ==
    {None} \cup { Some([type |-> type, colls |-> {c}, rb |-> rb]) : c \in cols }

\* the objects with one more, when there is one
Put(objs, n, opt) == IF opt = None THEN objs ELSE With(objs, n, opt[1])

\* the starting scenes: what earlier scripts or the user may have left
StartScenes ==
    { [objects |->
          Put(Put(Put(Put(NoObjects, Nm("Sorting_Bucket"), b),
                      Nm("Sorting_Bucket_Collider"), c),
                  Nm("Cube"), u),
              Nm("Key_Light"), l),
       extra |-> x] :
        b \in Placed("MESH", "PASSIVE", {Master, Nm("bucket")}),
        c \in Placed("MESH", "PASSIVE", {Master}),
        u \in Placed("MESH", "none", {Master, Nm("bucket")}),
        l \in Placed("LIGHT", "none", {Master, Nm("lighting")}),
        x \in SUBSET {Nm("bucket"), Nm("lighting"), Nm("misc")} }

\* the collections the objects are linked to
linked(objs) == UNION { objs[n].colls : n \in DOMAIN objs } \ {Master}

\* a session of the host in which the scene scripts run one after the other,
\* in any order, from any starting scene
InitScripts ==
    /\ InitCommon
    /\ plan = NoPlan
    /\ mpc = "off"
    /\ env_timeout = None
    /\ skip_conveyor = FALSE
    /\ code = <<>>
    /\ timeout = 1
    /\ is_debug = FALSE
    /\ listening = TRUE
    /\ script_exists = TRUE
    /\ attempts = 0
    /\ rpc = "none"
    /\ todo = <<>>
    /\ \E s \in StartScenes :
         /\ objects = s.objects
         /\ collections = linked(s.objects) \cup s.extra
    /\ bpc = "idle"
    /\ worklist = {}
    /\ runs = <<>>
    /\ snap = NoObjects
    /\ world = NewWorld
    /\ positioned = {}
    /\ issues = {}
    /\ fs = NoFiles
    /\ fs0 = NoFiles
    /\ failed = {}
    /\ tried = <<>>
    /\ cam = NoCam

NextScripts ==
    \/ Len(runs) < MaxRuns /\ RunBucket
    \/ Len(runs) < MaxRuns /\ ClearStart
    \/ ClearRemove
    \/ ClearCollections
    \/ Len(runs) < MaxRuns /\ RunLighting

SpecScripts == InitScripts /\ [][NextScripts]_vars

\* ---------------------------------------------------- create_conveyor_belt.py

Range(s) == { s[k] : k \in DOMAIN s }

\* the slats of the conveyor the model follows, of the twenty of the script
Slats == <<"Conveyor_Slat_01", "Conveyor_Slat_02">>

\* a new object of the active collection, taken to be the main collection
New(type, rb) == [type |-> type, colls |-> {Master}, rb |-> rb]

\* objs with one more object, asked to be called b
Add(objs, b, r) == With(objs, free_name(b, DOMAIN objs), r)

\* main of create_conveyor_belt.py, every host operation succeeding: the old
\* collection goes with its objects, the belt is made and moved into a new
\* collection, the path and the slats are made in it, the belt is removed and
\* the collection pruned to the path and the slats.  clear_existing_conveyor
\* removes the objects of the old collection while it iterates over them:
\* pass is the set of the objects the iteration passes over, which stay, out
\* of any collection, when the old collection is removed
conveyor_main(objs, cols, pass) ==
    LET c == Nm("conveyor_belt")
        o1 == IF c \in cols
              THEN collections_remove(objects_remove(objs, members(objs, c) \ pass), c)
              ELSE objs
        belt == free_name("Conveyor_Belt", DOMAIN o1)
        o2 == With(o1, belt, [type |-> "MESH", colls |-> {c}, rb |-> "PASSIVE"])
        o3 == Add(o2, "Conveyor_Path", [type |-> "CURVE", colls |-> {c}, rb |-> "none"])
        o4 == Add(o3, Slats[1], [type |-> "MESH", colls |-> {c}, rb |-> "PASSIVE"])
        o5 == Add(o4, Slats[2], [type |-> "MESH", colls |-> {c}, rb |-> "PASSIVE"])
        o6 == objects_remove(o5, {Nm("Conveyor_Belt")} \cap DOMAIN o5)
        keep(n) == n = Nm("Conveyor_Path") \/ n[1] \in Range(Slats)
        o7 == objects_remove(o6, { n \in members(o6, c) : ~keep(n) })
    IN  [objects |-> o7, collections |-> cols \cup {c}]

\* what an iteration over S that removes what it visits may pass over: not
\* all of S, the first object visited being removed
passed_over(S) == { P \in SUBSET S : S # {} => P # S }

RunConveyor ==
    /\ bpc = "idle"
    /\ \E pass \in passed_over(IF Nm("conveyor_belt") \in collections
                               THEN members(objects, Nm("conveyor_belt")) ELSE {}) :
         /\ objects' = conveyor_main(objects, collections, pass).objects
         /\ collections' = conveyor_main(objects, collections, pass).collections
    /\ world' = [world EXCEPT !.rbw = TRUE, !.frame_start = 1, !.frame_end = 100]
    /\ Finish("create_conveyor_belt.py", TRUE, {})
    /\ snap' = objects
    /\ UNCHANGED << worklist, positioned, issues, fs, fs0, failed, tried, cam >>
    /\ UNCHANGED clientVars

\* create_conveyor_belt.py run again and again, and after the bucket script,
\* from any starting scene
NextConveyor ==
    \/ Len(runs) < MaxRuns /\ RunConveyor
    \/ Len(runs) < MaxRuns /\ RunBucket

SpecConveyor == InitScripts /\ [][NextConveyor]_vars

\* ------------------------------------------------------- import_lego_parts.py

\* the parts the importer can bring
PartNames == <<"part_1", "part_2", "part_3", "part_4", "part_5", "part_6">>

RECURSIVE import_parts(_, _, _)
\* the first n parts, each new object moved from the main collection to c
import_parts(objs, c, n) ==
    IF n = 0 THEN objs
    ELSE Add(import_parts(objs, c, n - 1), PartNames[n],
             [type |-> "MESH", colls |-> {c}, rb |-> "none"])

\* import_lego_parts: nothing is done without the part files; else a new
\* collection is made, asked to be called lego_parts, and n files import
RunImport ==
    /\ bpc = "idle"
    /\ \E found \in BOOLEAN, n \in 0..Len(PartNames) :
        IF ~found
        THEN UNCHANGED << objects, collections >>
        ELSE LET c == free_name("lego_parts", collections)
             IN  /\ collections' = collections \cup {c}
                 /\ objects' = import_parts(objects, c, n)
    /\ Finish("import_lego_parts.py", TRUE, {})
    /\ snap' = objects
    /\ UNCHANGED << worklist, restVars >>
    /\ UNCHANGED clientVars

\* ----------------------------------------------------- animate_lego_physics.py

\* get_lego_parts: the mesh objects of the collection named lego_parts
get_lego_parts(objs, cols) ==
    IF Nm("lego_parts") \in cols
    THEN { n \in members(objs, Nm("lego_parts")) : objs[n].type = "MESH" }
    ELSE {}

\* rigid bodies of the given type on the objects of S
with_rb(objs, S, rb) ==
    [n \in DOMAIN objs |-> IF n \in S THEN [objs[n] EXCEPT !.rb = rb] ELSE objs[n]]

\* main up to the colours: the physics world, the ground plane, the bucket and
\* the parts; main returns when the bucket or the parts are not found
PhysicsSetup ==
    /\ bpc = "idle"
    /\ world' = [world EXCEPT !.rbw = TRUE, !.substeps = 60, !.iterations = 120]
    /\ snap' = objects
    /\ positioned' = {}
    /\ LET o1 == Add(objects, "Physics_Ground", New("MESH", "PASSIVE"))
           bucket == Nm("Sorting_Bucket")
           o2 == with_rb(o1, {bucket}, "PASSIVE")
           parts == get_lego_parts(o2, collections)
       IN  IF bucket \notin DOMAIN o1
           THEN /\ objects' = o1
                /\ Finish("animate_lego_physics.py", TRUE, {})
                /\ UNCHANGED worklist
           ELSE IF parts = {}
           THEN /\ objects' = o2
                /\ Finish("animate_lego_physics.py", TRUE, {})
                /\ UNCHANGED worklist
           ELSE /\ objects' = with_rb(o2, parts, "ACTIVE")
                /\ worklist' = parts
                /\ bpc' = "assign_colors"
                /\ UNCHANGED runs
    /\ UNCHANGED << collections, issues, fs, fs0, failed, tried, cam >>
    /\ UNCHANGED clientVars

\* the colours of the parts: the handler of an exception raised there is the
\* only place where position_parts_above_bucket is called
PhysicsColors ==
    /\ bpc = "assign_colors"
    /\ \E raised \in BOOLEAN :
        positioned' = IF raised THEN worklist ELSE positioned
    /\ bpc' = "start_physics_simulation"
    /\ UNCHANGED << objects, collections, worklist, runs, snap, world, issues,
                    fs, fs0, failed, tried, cam >>
    /\ UNCHANGED clientVars

\* start_physics_simulation is entered: the frame range and the rigid body
\* world, then the bake
PhysicsStart ==
    /\ bpc = "start_physics_simulation"
    /\ world' = [world EXCEPT !.rbw = TRUE, !.frame_start = 1, !.frame_end = 100]
    /\ bpc' = "bake"
    /\ tried' = <<>>
    /\ UNCHANGED << objects, collections, worklist, runs, snap, positioned,
                    issues, fs, fs0, failed, cam >>
    /\ UNCHANGED clientVars

\* the bake methods, in the order of the nested try blocks
Methods == << "bake_to_keyframes", "world_bake", "ptcache.bake_all",
              "ptcache.bake", "manual_per_frame_sampling" >>

\* what a method may do: an operator of the host returns or raises;
\* manual_per_frame_sampling handles every exception itself
may_raise(m) == IF m = "manual_per_frame_sampling" THEN {FALSE} ELSE BOOLEAN

\* a bake that goes on to the next method after one that has not raised
PhysicsBakeGoesOn ==
    /\ bpc = "bake"
    /\ LET m == Methods[Len(tried) + 1]
       IN  \E raised \in may_raise(m) :
             /\ tried' = Append(tried, [method |-> m, raised |-> raised])
             /\ IF Len(tried) + 1 < Len(Methods)
                THEN UNCHANGED << bpc, runs, worklist >>
                ELSE /\ worklist' = {}
                     /\ Finish("animate_lego_physics.py", TRUE, {})
    /\ UNCHANGED << objects, collections, snap, world, positioned, issues, fs,
                    fs0, failed, cam >>
    /\ UNCHANGED clientVars

\* one method of the bake: the next of the order is tried, and the function
\* returns when it has not raised or when it was the last
PhysicsBake ==
    /\ bpc = "bake"
    /\ LET m == Methods[Len(tried) + 1]
       IN  \E raised \in may_raise(m) :
             /\ tried' = Append(tried, [method |-> m, raised |-> raised])
             /\ IF raised /\ Len(tried) + 1 < Len(Methods)
                THEN UNCHANGED << bpc, runs, worklist >>
                ELSE /\ worklist' = {}
                     /\ Finish("animate_lego_physics.py", TRUE, {})
    /\ UNCHANGED << objects, collections, snap, world, positioned, issues, fs,
                    fs0, failed, cam >>
    /\ UNCHANGED clientVars

\* ---------------------------------------------------------- render_snapshot.py

\* position_camera_to_fit_bounds.  Distances are counted in units of
\* 0.025 / DistUnit and fills in units of 1 / 16000, so that every product
\* and quotient of the function is an integer
DistUnit == 1310720
MAX_DOLLY_STEPS == 8
\* 0.75
TARGET_FILL == 12000
\* 1e-3, the floor of the fill and of the target in the ratio
FillFloor == 16
\* 0.05, the floor of the distance
DistFloor == 2 * DistUnit
\* 0.45, as a fraction
CLOSE_FACTOR == << 9, 20 >>

max(a, b) == IF a >= b THEN a ELSE b

RECURSIVE gcd(_, _)
gcd(a, b) == IF b = 0 THEN a ELSE gcd(b, a % b)

\* the fraction n / d in lowest terms
frac(n, d) == << n \div gcd(n, d), d \div gcd(n, d) >>

\* x times the fraction q
times(x, q) == (x * q[1]) \div q[2]

\* ratio = max(fill, 1e-3) / max(TARGET_FILL, 1e-3), with no floor at a half
step_scale_no_half(fill) == frac(max(fill, FillFloor), max(TARGET_FILL, FillFloor))

\* ratio = max(fill, 1e-3) / max(TARGET_FILL, 1e-3); step_scale = max(ratio, 0.5)
step_scale(fill) ==
    LET n == max(fill, FillFloor)
        d == max(TARGET_FILL, FillFloor)
    IN  IF 2 * n >= d THEN frac(n, d) ELSE << 1, 2 >>

\* the distances the bounds of a scene may give: 0, 0.025, 0.05, 0.1, 0.2, 1
Distances == { k * DistUnit : k \in {0, 1, 2, 4, 8, 40} }

\* the fills a projection of the corners may give: 0, 3/16, 3/8, 9/16, 3/4, 1
Fills == {0, 3000, 6000, 9000, 12000, 16000}

\* no corner could be projected: the iteration has no fill
NoFill == -1

\* the camera is put at the distance the bounds give; the loop is entered
\* when the scene has corners
DollyStart ==
    /\ cam.pc = "off"
    /\ \E d \in Distances, corners \in BOOLEAN :
        cam' = [pc |-> IF corners THEN "loop" ELSE "close",
                distance |-> d, old |-> d, fill |-> 0, iters |-> 0]
    /\ UNCHANGED << objects, collections, bpc, worklist, runs, snap, world,
                    positioned, issues, fs, fs0, failed, tried >>
    /\ UNCHANGED clientVars

\* one iteration of the loop: no scene or no projected point ends it, a fill
\* of the target or more ends it, a smaller fill moves the camera
DollyIter ==
    /\ cam.pc = "loop"
    /\ cam.iters < MAX_DOLLY_STEPS
    /\ \/ cam' = [cam EXCEPT !.pc = "close", !.iters = @ + 1, !.fill = NoFill,
                               !.old = cam.distance]
       \/ \E fill \in Fills :
            IF fill >= TARGET_FILL
            THEN cam' = [cam EXCEPT !.pc = "close", !.iters = @ + 1,
                                    !.fill = fill, !.old = cam.distance]
            ELSE cam' = [pc |-> IF cam.iters + 1 < MAX_DOLLY_STEPS
                                THEN "loop" ELSE "close",
                         distance |-> max(times(cam.distance, step_scale(fill)),
                                          DistFloor),
                         old |-> cam.distance,
                         fill |-> fill,
                         iters |-> cam.iters + 1]
    /\ UNCHANGED << objects, collections, bpc, worklist, runs, snap, world,
                    positioned, issues, fs, fs0, failed, tried >>
    /\ UNCHANGED clientVars

\* after the loop the camera is brought closer by CLOSE_FACTOR
DollyClose ==
    /\ cam.pc = "close"
    /\ cam' = [cam EXCEPT !.pc = "placed", !.old = cam.distance,
                          !.distance = times(cam.distance, CLOSE_FACTOR)]
    /\ UNCHANGED << objects, collections, bpc, worklist, runs, snap, world,
                    positioned, issues, fs, fs0, failed, tried >>
    /\ UNCHANGED clientVars

\* one camera placed for a scene of any size
InitDolly ==
    /\ InitCommon
    /\ plan = NoPlan
    /\ SceneOff
    /\ mpc = "off"
    /\ env_timeout = None
    /\ skip_conveyor = FALSE
    /\ code = <<>>
    /\ timeout = 1
    /\ is_debug = FALSE
    /\ listening = TRUE
    /\ script_exists = TRUE
    /\ attempts = 0
    /\ rpc = "none"
    /\ todo = <<>>

NextDolly ==
    \/ DollyStart
    \/ DollyIter
    \/ DollyClose

SpecDolly == InitDolly /\ [][NextDolly]_vars


\* RENDERS_DIR, the directories the model has under it, and one outside
Root == "renders"
Below == {"renders/frame_01", "renders/old.png"}
Outside == "elsewhere"

\* a file: its directory and its name, cut at the last dot; ext is "" for a
\* name with no dot
File(d, stem, ext) == [dir |-> d, stem |-> stem, ext |-> ext]

\* str.lower on the part of a name after its last dot
lower(ext) == IF ext \in {"PNG", "Png"} THEN "png" ELSE ext

\* any file counts as an old render
fnmatch_any(f) == TRUE

\* fnmatch.fnmatch(name.lower(), "*.png")
fnmatch_png(f) == lower(f.ext) = "png"

\* what os.walk(root) visits
walked(t) == { f \in t.files : f.dir \in {Root} \cup Below }

\* clear_renders_dir is entered: nothing to do without the root
SnapStart ==
    /\ bpc = "idle"
    /\ bpc' = "clear_renders_dir"
    /\ fs0' = fs
    /\ failed' = {}
    /\ worklist' = IF fs.root THEN walked(fs) ELSE {}
    /\ snap' = objects
    /\ UNCHANGED << objects, collections, runs, world, positioned, issues, fs,
                    tried, cam >>
    /\ UNCHANGED clientVars

\* one file name of the walk: a name that matches is removed, and a removal
\* that raises is reported and the walk goes on
RendersRemove ==
    /\ bpc = "clear_renders_dir"
    /\ \E f \in worklist :
        /\ worklist' = worklist \ {f}
        /\ IF fnmatch_png(f)
           THEN \/ /\ fs' = [fs EXCEPT !.files = @ \ {f}]
                   /\ UNCHANGED failed
                \/ /\ failed' = failed \cup {f}
                   /\ UNCHANGED fs
           ELSE UNCHANGED << fs, failed >>
    /\ UNCHANGED << objects, collections, bpc, runs, snap, world, positioned,
                    issues, fs0, tried, cam >>
    /\ UNCHANGED clientVars

\* the frames rendered and the views of each
FrameDirs ==
    {"renders/frame_01", "renders/frame_05", "renders/frame_10",
     "renders/frame_20"}

Views ==
    {"snapshot_ortho_front", "snapshot_ortho_back", "snapshot_ortho_right",
     "snapshot_ortho_left", "snapshot_ortho_top", "snapshot_ortho_bottom",
     "snapshot_ortho_iso_ne", "snapshot_ortho_iso_nw", "snapshot_ortho_iso_se",
     "snapshot_ortho_iso_sw"}

\* the scene has a mesh to frame
has_meshes(objs) == \E n \in DOMAIN objs : objs[n].type = "MESH"

\* get_or_create_camera
with_camera(objs) ==
    IF Nm("SorterCam") \in DOMAIN objs /\ objs[Nm("SorterCam")].type = "CAMERA"
    THEN objs
    ELSE Add(objs, "SorterCam", New("CAMERA", "none"))

\* the walk is over: the root is made, and with meshes in the scene the
\* camera is found or made and every view of every frame rendered
SnapRender ==
    /\ bpc = "clear_renders_dir"
    /\ worklist = {}
    /\ IF has_meshes(objects)
       THEN /\ objects' = with_camera(objects)
            /\ fs' = [root |-> TRUE,
                      dirs |-> fs.dirs \cup {Root} \cup FrameDirs,
                      files |-> fs.files \cup
                          { File(d, v, "png") :
                                d \in FrameDirs, v \in Views }]
       ELSE /\ fs' = [fs EXCEPT !.root = TRUE, !.dirs = @ \cup {Root}]
            /\ UNCHANGED objects
    /\ Finish("render_snapshot.py", TRUE, {})
    /\ UNCHANGED << collections, worklist, snap, world, positioned, issues,
                    fs0, failed, tried, cam >>
    /\ UNCHANGED clientVars

\* ------------------------------------------------------------ validate_scene.py

\* the words of the bucket checks found in the lower-cased name with base b
words(b) ==
    CASE b \in {"Sorting_Bucket", "Sorting_Bucket_Collider"} -> {"bucket"}
      [] b = "Bucket_Cylinder" -> {"bucket", "cylinder"}
      [] b = "Bucket_Base" -> {"bucket", "base"}
      [] OTHER -> {}

\* an issue: its text and the collection or object it is about
Issue(text, on) == <<text, Nm(on)>>

validate_collections(objs, cols) ==
    UNION { IF Nm(c) \notin cols THEN {Issue("Missing collection", c)}
            ELSE IF members(objs, Nm(c)) = {} THEN {Issue("Collection is empty", c)}
            ELSE {} : c \in {"bucket", "conveyor_belt", "lego_parts"} }

validate_physics_world(w) ==
    IF ~w.rbw THEN {Issue("No rigidbody world in scene", "scene")}
    ELSE (IF w.substeps < 5
          THEN {Issue("Rigidbody substeps too low", "scene")} ELSE {})
         \cup (IF w.iterations < 10
               THEN {Issue("Rigidbody solver iterations too low", "scene")} ELSE {})

validate_bucket(objs, cols) ==
    IF Nm("bucket") \notin cols THEN {Issue("Bucket collection missing", "bucket")}
    ELSE LET inside == members(objs, Nm("bucket"))
             cylinders == { n \in inside : {"bucket", "cylinder"} \subseteq words(n[1]) }
             bases == { n \in inside : {"bucket", "base"} \subseteq words(n[1]) } \ cylinders
         IN  (IF cylinders = {}
              THEN {Issue("Bucket cylinder not found", "bucket")} ELSE {})
             \cup (IF bases = {}
                   THEN {Issue("Bucket base not found", "bucket")} ELSE {})
             \cup { <<"Bucket base rigidbody", n>> :
                        n \in { m \in bases : objs[m].rb # "PASSIVE" } }

\* the belt has its height from create_conveyor_belt, above the least wanted
validate_conveyor(objs, cols) ==
    IF Nm("conveyor_belt") \notin cols
    THEN {Issue("Conveyor belt collection missing", "conveyor_belt")}
    ELSE IF Nm("Conveyor_Belt") \notin DOMAIN objs
    THEN {Issue("Conveyor_Belt object not found", "Conveyor_Belt")}
    ELSE IF objs[Nm("Conveyor_Belt")].rb # "PASSIVE"
    THEN {Issue("Conveyor belt rigidbody", "Conveyor_Belt")}
    ELSE {}

\* the parts wanted, and looked at
MinParts == 5

\* the parts the importer brought first
first_parts(parts) ==
    { n \in parts : \E k \in 1..Min(MinParts, Len(PartNames)) : n[1] = PartNames[k] }

\* a part with a rigid body has the mass animate_lego_physics gave it
validate_lego_parts(objs, cols) ==
    IF Nm("lego_parts") \notin cols
    THEN {Issue("LEGO parts collection missing", "lego_parts")}
    ELSE LET parts == members(objs, Nm("lego_parts"))
         IN  (IF parts = {} THEN {Issue("No LEGO parts in collection", "lego_parts")}
              ELSE IF Cardinality(parts) < MinParts
              THEN {Issue("Only a few LEGO parts imported", "lego_parts")}
              ELSE {})
             \cup { <<"LEGO part rigidbody", n>> :
                        n \in { m \in first_parts(parts) : objs[m].rb # "ACTIVE" } }

validate_camera(objs) ==
    (IF Nm("SorterCam") \notin DOMAIN objs
     THEN {Issue("SorterCam not found", "SorterCam")}
     ELSE IF objs[Nm("SorterCam")].type # "CAMERA"
     THEN {Issue("SorterCam is no camera", "SorterCam")}
     ELSE {})
    \cup (IF \A n \in DOMAIN objs : objs[n].type # "CAMERA"
          THEN {Issue("No cameras in scene", "scene")} ELSE {})

validate_lighting(objs) ==
    LET n == Cardinality({ m \in DOMAIN objs : objs[m].type = "LIGHT" })
    IN  IF n = 0 THEN {Issue("No lights in scene", "scene")}
        ELSE IF n < 2 THEN {Issue("Only one light in scene", "scene")}
        ELSE {}

validate_timeline(w) ==
    (IF w.frame_start > 1 THEN {Issue("Frame start", "scene")} ELSE {})
    \cup (IF w.frame_end < 50 THEN {Issue("Frame end", "scene")} ELSE {})

validate_scene(objs, cols, w) ==
    validate_collections(objs, cols) \cup validate_physics_world(w)
    \cup validate_bucket(objs, cols) \cup validate_conveyor(objs, cols)
    \cup validate_lego_parts(objs, cols) \cup validate_camera(objs)
    \cup validate_lighting(objs) \cup validate_timeline(w)

RunValidate ==
    /\ bpc = "idle"
    /\ issues' = validate_scene(objects, collections, world)
    /\ Finish("validate_scene.py", TRUE, {})
    /\ UNCHANGED << objects, collections, worklist, snap, world, positioned,
                    fs, fs0, failed, tried, cam >>
    /\ UNCHANGED clientVars

\* -------------------------------------------------------------- the pipeline

\* the scripts main runs, then the validation of the scene
Pipeline == Stages \o <<"validate_scene.py">>

RECURSIVE next_from(_)
\* the first script from position k on that is not skipped
next_from(k) ==
    IF k > Len(Pipeline) THEN "none"
    ELSE IF skipped(Pipeline[k]) THEN next_from(k + 1)
    ELSE Pipeline[k]

\* the script the host is asked to run next: the one after the last that
\* succeeded, or the same again while a required stage has attempts left
due ==
    IF bpc # "idle" THEN "none"
    ELSE IF runs = <<>> THEN next_from(1)
    ELSE LET last == Last(runs)
             k == CHOOSE j \in DOMAIN Pipeline : Pipeline[j] = last.script
         IN  IF last.ok THEN next_from(k + 1)
             ELSE IF Len(runs) < stage_attempts(last.script) THEN last.script
             ELSE "none"

\* the scene scripts in the order of main, from any starting scene
InitPipe ==
    /\ InitCommon
    /\ plan = NoPlan
    /\ mpc = "off"
    /\ env_timeout = None
    /\ skip_conveyor \in BOOLEAN
    /\ code = <<>>
    /\ timeout = 1
    /\ is_debug \in BOOLEAN
    /\ listening = TRUE
    /\ script_exists = TRUE
    /\ attempts = 0
    /\ rpc = "none"
    /\ todo = <<>>
    /\ \E s \in StartScenes :
         /\ objects = s.objects
         /\ collections = linked(s.objects) \cup s.extra
    /\ bpc = "idle"
    /\ worklist = {}
    /\ runs = <<>>
    /\ snap = NoObjects
    /\ world = NewWorld
    /\ positioned = {}
    /\ issues = {}
    /\ fs \in {NoFiles,
               [root |-> TRUE, dirs |-> {Root},
                files |-> {File(Root, "snapshot", "png")}]}
    /\ fs0 = NoFiles
    /\ failed = {}
    /\ tried = <<>>
    /\ cam = NoCam

NextPipe ==
    \/ due = "clear_scene.py" /\ ClearStart
    \/ ClearRemove
    \/ ClearCollections
    \/ due = "create_sorting_bucket.py" /\ RunBucket
    \/ due = "create_conveyor_belt.py" /\ RunConveyor
    \/ due = "import_lego_parts.py" /\ RunImport
    \/ due = "animate_lego_physics.py" /\ PhysicsSetup
    \/ PhysicsColors
    \/ PhysicsStart
    \/ PhysicsBake
    \/ due = "setup_lighting.py" /\ RunLighting
    \/ due = "render_snapshot.py" /\ SnapStart
    \/ RendersRemove
    \/ SnapRender
    \/ due = "validate_scene.py" /\ RunValidate

SpecPipe == InitPipe /\ [][NextPipe]_vars

\* the file trees clear_renders_dir may find
Trees ==
    { [root |-> r, dirs |-> {Outside} \cup ds, files |-> fl] :
        r \in BOOLEAN,
        ds \in SUBSET ({Root} \cup Below),
        fl \in SUBSET { File(Root, "snapshot", "png"), File(Root, "OLD", "PNG"),
                        File(Root, "notes", "txt"), File(Root, "png", ""),
                        File("renders/frame_01", "snapshot_ortho_front", "Png"),
                        File("renders/frame_01", "camera", "csv"),
                        File(Outside, "photo", "png") } }

\* a tree that can be: the root is a directory of the tree when it exists,
\* nothing is under a root that does not, and every file is in a directory
well_formed(t) ==
    /\ t.root <=> Root \in t.dirs
    /\ ~t.root => t.dirs \cap Below = {}
    /\ \A f \in t.files : f.dir \in t.dirs

\* render_snapshot.py alone, on any file tree, in any of a few scenes
InitRenders ==
    /\ InitCommon
    /\ plan = NoPlan
    /\ mpc = "off"
    /\ env_timeout = None
    /\ skip_conveyor = FALSE
    /\ code = <<>>
    /\ timeout = 1
    /\ is_debug = FALSE
    /\ listening = TRUE
    /\ script_exists = TRUE
    /\ attempts = 0
    /\ rpc = "none"
    /\ todo = <<>>
    /\ objects \in {NoObjects, With(NoObjects, Nm("Cube"), New("MESH", "none"))}
    /\ collections = {}
    /\ bpc = "idle"
    /\ worklist = {}
    /\ runs = <<>>
    /\ snap = NoObjects
    /\ world = NewWorld
    /\ positioned = {}
    /\ issues = {}
    /\ fs \in { t \in Trees : well_formed(t) }
    /\ fs0 = NoFiles
    /\ failed = {}
    /\ tried = <<>>
    /\ cam = NoCam

NextRenders ==
    \/ runs = <<>> /\ SnapStart
    \/ RendersRemove
    \/ SnapRender

SpecRenders == InitRenders /\ [][NextRenders]_vars

\* -------------------------------------------------------------------- claims

\* the powers of two 2^1 .. 2^n
Backoffs(n) == [k \in 1..n |-> Pow(2, k)]

\* C1: run_with_retries with N >= 1 attempts, when every call of
\* execute_script_file fails, makes exactly N calls, sleeps 2^1, ..., 2^(N-1)
\* seconds between them, call k coming after exactly k - 1 sleeps and no sleep
\* after the last, and returns False.
C1_RetriesExhausted ==
    /\ rpc = "wait" => calls = i /\ sleeps = Backoffs(i - 1)
    /\ rpc = "sleep" => calls = i /\ sleeps = Backoffs(i - 1) /\ i < attempts
    /\ (rpc = "done" /\ attempts >= 1 /\ \A k \in 1..Len(log) : ~log[k].ret)
         => /\ calls = attempts
            /\ Len(log) = attempts
            /\ sleeps = Backoffs(attempts - 1)
            /\ result = FALSE

C1_Witness ==
    /\ rpc = "done"
    /\ attempts = MaxAttempts
    /\ calls = MaxAttempts
    /\ ~result
    /\ Len(sleeps) = MaxAttempts - 1
    /\ \E k \in 1..Len(log) : log[k].outcome = "timeout"

\* the tick at which the request was sent
sendTime == deadline - Sec(timeout)

\* the call is in the read loop
inLoop == pc \in {"loop", "recv"}

\* C2: once connected, a call whose host never delivers a complete response
\* leaves the read loop within half a second (and the scheduling lag) of the
\* deadline of timeout seconds after sending, returns False and reports a
\* timeout; and the call always returns.
C2_LoopBounded ==
    /\ inLoop => now < deadline + HalfSec + MaxLag
    /\ pc = "recv" => now < deadline
    /\ (pc = "ret" /\ nconnect = 1 /\ response_text = None)
         => /\ ret = FALSE
            /\ outcome = "timeout"
            /\ now >= sendTime + Sec(timeout)
            /\ now < deadline + HalfSec + MaxLag

C2_TimesOut == [] C2_LoopBounded /\ <>(pc = "ret")

C2_Witness ==
    /\ pc = "ret"
    /\ outcome = "timeout"
    /\ timeout = MaxTimeout
    /\ buffer = <<"G", "G">>
    /\ response_text = None

\* C4: execute_code returns True exactly when a response was received that
\* parses as a JSON object whose status is "success".
C4_TrueIffSuccess ==
    pc = "ret" =>
        (ret <=> /\ response_text # None
                 /\ response_text[1] # <<>>
                 /\ json_loads(response_text[1]) \in Objects
                 /\ json_loads(response_text[1]) = "OS")

C4_Witness ==
    /\ pc = "ret"
    /\ ret
    /\ response_text = Some(<<"PL", "PR">>)

\* C5: when the connection is refused, execute_code returns False at once:
\* after one connect, with no request sent, no recv and no heartbeat.
C5_RefusedAtOnce ==
    (pc = "ret" /\ ~listening)
        => /\ ret = FALSE
           /\ nconnect = 1
           /\ sent = <<>>
           /\ pending = <<>>
           /\ nrecv = 0
           /\ heartbeats = <<>>
           /\ now = 0

C5_Witness == pc = "ret" /\ ~listening /\ nconnect = 1 /\ outcome = "error"

\* C6: a response text that is not parsable JSON makes execute_code return
\* False, by the error path.
C6_UnparsableIsError ==
    (pc = "ret" /\ response_text # None /\ response_text[1] # <<>>
        /\ json_loads(response_text[1]) = "bad")
        => ret = FALSE /\ outcome = "error"

C6_Witness ==
    /\ pc = "ret"
    /\ response_text = Some(<<"OS", "G">>)
    /\ ~ret

\* the code passed to call number id
passed(id) == IF id <= Len(log) THEN log[id].code ELSE code

\* one line: a single newline, at the end
one_line(m) ==
    /\ m # <<>>
    /\ Last(m) = "nl"
    /\ \A k \in 1..(Len(m) - 1) : m[k] # "nl"

\* every call that connected wrote exactly one message, before any recv, and
\* the message is one line that the host decodes to decoded(code)
OneRequest(decoded(_)) ==
    /\ Len(sent) <= 1
    /\ (pc \in {"loop", "recv", "parse", "ret"} /\ listening) => Len(sent) = 1
    /\ nrecv > 0 => Len(sent) = 1
    /\ \A k \in 1..Len(sent) :
         one_line(sent[k]) /\ host_decode(sent[k]) = Some(decoded(code))
    /\ \A j \in 1..Len(log) :
         /\ Len(log[j].sent) = 1
         /\ one_line(log[j].sent[1])
         /\ host_decode(log[j].sent[1]) = Some(decoded(log[j].code))

Same(c) == c

\* C3, as stated: the one request carries params.code equal to the code given.
C3_Original == OneRequest(Same)

\* C3: every call that connects writes exactly one message on its connection,
\* in full before any recv and nothing after it: one line ended by one newline,
\* which decodes to the execute_code command whose params.code is the code
\* given with every lone surrogate replaced by a question mark.
C3_OneRequest == OneRequest(utf8_encode)

C3_Witness ==
    /\ pc = "ret"
    /\ nrecv > 0
    /\ code = <<"SET", "nl", "q">>
    /\ sent = << <<"env_open", "SET", "bs", "n", "bs", "q", "env_close", "nl">> >>

\* the requests the host holds: received and not yet run to the end
inHost ==
    { pending[k].id : k \in 1..Len(pending) } \cup { hostExec[k].id : k \in 1..Len(hostExec) }

OneSocket ==
    /\ nsock <= 1
    /\ sent # <<>> => nsock = 1
    /\ \A k \in 1..Len(log) :
         log[k].nsock <= 1 /\ (log[k].sent # <<>> => log[k].nsock = 1)

\* C7, as stated: when the call in progress has sent its request, the host
\* holds no request of an earlier call.
C7_Original ==
    /\ OneSocket
    /\ (pc # "idle" /\ sent # <<>>) => \A id \in inHost : id = callId

\* C7: each call uses one socket, at most one request of a call that has not
\* returned is in the host, and a request of an earlier call is still in the
\* host (unanswered or executing) only when that call returned without an
\* answer, by its timeout or because the host closed the connection.
C7_OneAtATime ==
    /\ OneSocket
    /\ \A id \in inHost : id <= callId
    /\ pc = "idle" => \A id \in inHost : id <= Len(log)
    /\ \A id \in inHost :
         id <= Len(log) => ~log[id].answered /\ log[id].outcome \in {"timeout", "error"}

C7_Witness ==
    /\ pc = "recv"
    /\ callId = 2
    /\ log[1].outcome = "timeout"
    /\ hostExec # None
    /\ hostExec[1].id = 1
    /\ Len(pending) = 1
    /\ pending[1].id = 2

\* C8: a call that timed out wrote its request and nothing else; the step
\* that returns on the deadline leaves the connection and the host as they
\* are; and a script the host has started stops executing only by coming to
\* its end in the host.
C8_OnlyRequest ==
    /\ (pc = "ret" /\ outcome = "timeout") => sent = << message(code) >>
    /\ \A k \in 1..Len(log) :
         log[k].outcome = "timeout" => log[k].sent = << message(log[k].code) >>

C8_Local ==
    /\ (pc = "loop" /\ pc' = "ret") => UNCHANGED << sent, hostVars >>
    /\ (hostExec # None /\ hostExec' # hostExec) => HostFinish(TRUE) \/ HostFinish(FALSE)

C8_TimeoutIsLocal == [] C8_OnlyRequest /\ [][C8_Local]_vars

\* the script of call 1 came to its end in the host after the call timed out
C8_Witness ==
    /\ Len(log) >= 1
    /\ log[1].outcome = "timeout"
    /\ log[1].ret = FALSE
    /\ \E k \in 1..Len(scene) : scene[k].id = 1 /\ scene[k].returned

\* the value written in the script of the first call
setValue == Tail(log[1].code)

\* the second call returned True
readBack == Len(log) = 1 /\ pc = "ret" /\ ret

\* C9, as stated: the host runs the code passed, and the value read back is
\* the value set.
C9_Original ==
    /\ \A k \in 1..Len(scene) : scene[k].code = passed(scene[k].id)
    /\ readBack => printed = Some(setValue)

\* no lone surrogate, and no backslash followed by the letter n
clean(v) ==
    /\ \A k \in 1..Len(v) : v[k] # "sur"
    /\ \A k \in 1..(Len(v) - 1) : ~(v[k] = "bs" /\ v[k + 1] = "n")

\* C9: the host runs the code passed with every lone surrogate replaced by a
\* question mark, and the value read back is printed as the value set with
\* that replacement, and with every backslash followed by n turned into a
\* newline; it is the value set when the value holds neither.
C9_RoundTrip ==
    /\ \A k \in 1..Len(scene) : scene[k].code = utf8_encode(passed(scene[k].id))
    /\ readBack => printed = Some(replace_bs_n(utf8_encode(setValue)))
    /\ (readBack /\ clean(setValue)) => printed = Some(setValue)

C9_Witness ==
    /\ readBack
    /\ setValue = <<"nl", "bs">>
    /\ printed = Some(<<"nl", "bs">>)
    /\ Len(scene) = 2

\* the length of the wait, so far
waitLen == now - sendTime

\* nothing arrived before the response
silent == buffer \in {<<>>, <<"OS">>}

\* the wait is over
waited == pc \in {"parse", "ret"} /\ sent # <<>>

Spacing ==
    \A k \in 1..Len(heartbeats) :
        heartbeats[k] - (IF k = 1 THEN sendTime ELSE heartbeats[k - 1]) >= interval

\* C10, as stated: a silent wait longer than the interval prints a heartbeat,
\* and heartbeats are never closer than the interval.
C10_Original ==
    /\ (waited /\ silent /\ waitLen > interval) => heartbeats # <<>>
    /\ Spacing

C10_Periodic ==
    /\ (waited /\ silent /\ waitLen >= interval + Sec(PollMaxSec)) => heartbeats # <<>>
    /\ Spacing

\* C10: the heartbeat is tested when a recv poll of at most 2 s times out: a
\* silent wait that lasts at least the interval and one poll prints at least
\* one heartbeat, heartbeats are never closer than the interval, and none is
\* printed once the response is received.
C10_Heartbeats ==
    [] C10_Periodic /\ [][response_text # None => heartbeats' = heartbeats]_vars

C10_Witness ==
    /\ pc = "ret"
    /\ ret
    /\ is_debug
    /\ Len(heartbeats) = 2
    /\ buffer = <<"OS">>
    /\ waitLen >= interval + Sec(PollMaxSec)

\* the timeouts of the calls made so far, the one in progress included, by script
callTimeouts(s) ==
    { log[k].timeout : k \in { j \in 1..Len(log) : log[j].code = <<s>> } }
        \cup (IF pc # "idle" /\ code = <<s>> THEN {timeout} ELSE {})

\* the stage scripts of which a call was made
called == { s \in DOMAIN Stages : callTimeouts(Stages[s]) # {} }

\* C11, as stated: with BLENDER_MCP_TIMEOUT set to V, every stage script is
\* executed with timeout V.
C11_Original ==
    (mpc \in {"run", "end"} /\ env_timeout # None)
        => \A s \in DOMAIN Stages : callTimeouts(Stages[s]) \subseteq {env_timeout[1]}

\* C11: with BLENDER_MCP_TIMEOUT set to the integer V, in debug and in
\* non-debug mode, the clear, bucket, conveyor, parts, physics and lighting
\* scripts are executed with timeout exactly V, and the snapshot script with
\* the larger of V and its floor (120 s in debug mode, 420 s otherwise).
C11_EnvTimeout ==
    (mpc \in {"run", "end"} /\ env_timeout # None)
        => \A s \in DOMAIN Stages :
             callTimeouts(Stages[s]) \subseteq
                { IF Stages[s] = "render_snapshot.py"
                  THEN Max(env_timeout[1], IF is_debug THEN DebugSnapSec ELSE SnapSec)
                  ELSE env_timeout[1] }

C11_Witness ==
    /\ mpc = "end"
    /\ env_timeout = Some(DebugSnapSec - 1)
    /\ ~is_debug
    /\ Len(ran) = Len(Stages)
    /\ callTimeouts("render_snapshot.py") = {SnapSec}
    /\ callTimeouts("setup_lighting.py") = {DebugSnapSec - 1}

\* the scripts the host has been sent
hostSeen ==
    { pending[k].bytes : k \in 1..Len(pending) }
        \cup { hostExec[k].bytes : k \in 1..Len(hostExec) }
        \cup { message(scene[k].code) : k \in 1..Len(scene) }
        \cup { sent[k] : k \in 1..Len(sent) }
        \cup UNION { { log[k].sent[j] : j \in 1..Len(log[k].sent) } : k \in 1..Len(log) }

\* the number of the stage of a script
stageOf(s) == CHOOSE k \in DOMAIN Stages : Stages[k] = s

\* the stage returned True
succeeded(s) == \E k \in 1..Len(ran) : ran[k].script = s /\ ran[k].ok

\* the stages main is to run, in order
toRun == SelectSeq(Stages, LAMBDA s : ~(s = "create_conveyor_belt.py" /\ skip_conveyor))

\* C12: with SKIP_CONVEYOR=1 create_conveyor_belt.py is never sent to the
\* host; otherwise main does not go past the conveyor stage without running
\* it; and with or without the variable the other stages are run in the order
\* of main, each once the required stages before it (the conveyor only when
\* not skipped) have succeeded, all of them when no file is missing and no
\* required stage fails.
C12_SkipConveyor ==
    /\ skip_conveyor =>
         /\ message(<<"create_conveyor_belt.py">>) \notin hostSeen
         /\ \A k \in 1..Len(ran) : ran[k].script # "create_conveyor_belt.py"
    /\ (~skip_conveyor /\ mpc # "off" /\ stage > stageOf("create_conveyor_belt.py"))
         => succeeded("create_conveyor_belt.py")
    /\ \A k \in 1..Len(ran) :
         /\ \A j \in 1..(k - 1) : stageOf(ran[j].script) < stageOf(ran[k].script)
         /\ \A r \in Required :
              (stageOf(r) < stageOf(ran[k].script) /\ ~(r = "create_conveyor_belt.py" /\ skip_conveyor))
                 => succeeded(r)
    /\ (mpc = "end" /\ listening /\ missing = {}
          /\ \A k \in 1..Len(ran) : ran[k].script \in Required => ran[k].ok)
         => [k \in 1..Len(ran) |-> ran[k].script] = toRun

C12_Witness ==
    /\ mpc = "end"
    /\ skip_conveyor
    /\ Len(ran) = Len(Stages) - 1
    /\ Len(scene) = Len(Stages) - 1

\* the calls made so far of a script, the one in progress included
callCount(s) ==
    Cardinality({ j \in 1..Len(log) : log[j].code = <<s>> })
        + (IF pc # "idle" /\ code = <<s>> THEN 1 ELSE 0)

\* C13: with BLENDER_MCP_TIMEOUT unset, the timeout of every stage is 30 s in
\* debug mode and 300 s otherwise, that of the snapshot 120 s and 420 s, so
\* never larger in debug mode; in debug mode every stage is attempted at most
\* once, otherwise the clear, bucket and conveyor stages at most twice and the
\* others at most once; one run sends at most 10 scripts.
C13_DebugShortens ==
    mpc \in {"run", "end"} =>
      /\ env_timeout = None =>
           \A s \in DOMAIN Stages :
             /\ callTimeouts(Stages[s]) \subseteq
                  { IF Stages[s] = "render_snapshot.py"
                    THEN (IF is_debug THEN 120 ELSE 420)
                    ELSE (IF is_debug THEN 30 ELSE 300) }
             /\ is_debug =>
                  \A v \in callTimeouts(Stages[s]) :
                      v <= (IF Stages[s] = "render_snapshot.py" THEN 420 ELSE 300)
      /\ \A s \in DOMAIN Stages :
           callCount(Stages[s]) <=
               (IF ~is_debug /\ Stages[s] \in Required THEN 2 ELSE 1)
      /\ Len(log) + (IF pc # "idle" THEN 1 ELSE 0) <= 10
      /\ Len(scene) + Len(pending) + Len(hostExec) <= 10

C13_Witness ==
    /\ mpc = "end"
    /\ ~is_debug
    /\ env_timeout = None
    /\ Len(log) = 10
    /\ Len(scene) = Len(Stages)
    /\ callTimeouts("render_snapshot.py") = {420}
\* the last script that ran, once one has
lastRun == IF runs = <<>> THEN [script |-> "none", ok |-> FALSE, kept |-> {}] ELSE Last(runs)

\* script s ran last, to its end
after(s) == bpc = "idle" /\ lastRun.script = s /\ lastRun.ok

\* the run before the last was of script s, to its end
before(s) ==
    Len(runs) >= 2 /\ runs[Len(runs) - 1].script = s /\ runs[Len(runs) - 1].ok

\* C14, as stated: from any starting scene, after create_sorting_bucket.py the
\* scene holds exactly one Sorting_Bucket, one Sorting_Bucket_Collider and
\* one "bucket" collection, and a second run in a row leaves the objects of
\* the first.
C14_Original ==
    after("create_sorting_bucket.py") =>
        /\ Cardinality(named(objects, "Sorting_Bucket")) = 1
        /\ Cardinality(named(objects, "Sorting_Bucket_Collider")) = 1
        /\ Cardinality({ c \in collections : c[1] = "bucket" }) = 1
        /\ before("create_sorting_bucket.py") => objects = snap

\* two runs in a row from the empty scene: the collider of the first run is
\* left next to the collider of the second
C14_Witness ==
    /\ runs = << [script |-> "create_sorting_bucket.py", ok |-> TRUE, kept |-> {}],
                 [script |-> "create_sorting_bucket.py", ok |-> TRUE, kept |-> {}] >>
    /\ DOMAIN objects = {Nm("Sorting_Bucket"), Nm("Sorting_Bucket_Collider"),
                         <<"Sorting_Bucket_Collider", 1>>}
    /\ DOMAIN snap = {Nm("Sorting_Bucket"), Nm("Sorting_Bucket_Collider")}
    /\ collections = {Nm("bucket")}

C15_Cleared ==
    /\ after("clear_scene.py") =>
         /\ DOMAIN objects = {}
         /\ collections = lastRun.kept
    /\ (bpc = "idle" /\ lastRun.script = "clear_scene.py" /\ ~lastRun.ok) =>
         DOMAIN objects # {}

C15_Order ==
    /\ (bpc = "remove_all_objects" /\ collections' # collections) =>
         /\ DOMAIN objects = {}
         /\ runs' = Append(runs, [script |-> "clear_scene.py", ok |-> TRUE,
                                  kept |-> collections'])
    /\ (bpc = "remove_all_objects" /\ bpc' = "idle" /\ ~Last(runs').ok) =>
         /\ collections' = collections
         /\ objects' = objects

\* C15: when clear_scene.py comes to its end no object is left in the scene
\* data, and no collection is left but those whose removal failed, so none
\* when every removal succeeded; when the removal of an object fails the
\* script raises and ends there, with every collection still in place.
C15_ClearScene == [] C15_Cleared /\ [][C15_Order]_vars

C15_Witness ==
    /\ after("clear_scene.py")
    /\ lastRun.kept = {}
    /\ Cardinality(DOMAIN snap) >= 3
    /\ \E n \in DOMAIN snap : Nm("bucket") \in snap[n].colls
    /\ collections = {}

\* the lights of the scene
lights == { n \in DOMAIN objects : objects[n].type = "LIGHT" }

\* C18: after clear_scene.py and then setup_lighting.py the scene holds three
\* lights, named Key_Light, Fill_Light and Rim_Light (the back light); and
\* after every run of setup_lighting.py, however many in a row and from
\* whatever scene, the "lighting" collection holds exactly three objects, all
\* lights.
C18_Lighting ==
    after("setup_lighting.py") =>
        /\ Nm("lighting") \in collections
        /\ Cardinality(members(objects, Nm("lighting"))) = 3
        /\ members(objects, Nm("lighting")) \subseteq lights
        /\ { n[1] : n \in members(objects, Nm("lighting")) }
              = { Lights[k] : k \in 1..Len(Lights) }
        /\ before("clear_scene.py") =>
             lights = { Nm(Lights[k]) : k \in 1..Len(Lights) }

C18_Witness ==
    /\ bpc = "idle"
    /\ Len(runs) = 3
    /\ \A k \in 1..3 : runs[k].script = "setup_lighting.py"
    /\ Nm("Key_Light") \in DOMAIN snap
    /\ Master \in snap[Nm("Key_Light")].colls
    /\ Cardinality(lights) = 4

\* the objects of the collection named lego_parts
parts == IF Nm("lego_parts") \in collections
         THEN members(objects, Nm("lego_parts")) ELSE {}

\* every script up to the last ran to its end, the conveyor's too
all_succeeded ==
    /\ ~skip_conveyor
    /\ \A k \in DOMAIN runs : runs[k].ok

\* C16, as stated: on the scene left by a pipeline in which every stage
\* succeeded, the conveyor's too, and at least five parts were imported,
\* validate_scene returns no issue.
C16_Original ==
    (after("validate_scene.py") /\ all_succeeded /\ Cardinality(parts) >= MinParts)
        => issues = {}

\* such a pipeline, after which validate_scene misses the two bucket objects
\* it looks for by name and the belt that create_conveyor_belt removed
C16_Witness ==
    /\ after("validate_scene.py")
    /\ all_succeeded
    /\ Cardinality(parts) >= MinParts
    /\ issues = { Issue("Bucket cylinder not found", "bucket"),
                  Issue("Bucket base not found", "bucket"),
                  Issue("Conveyor_Belt object not found", "Conveyor_Belt") }

\* the objects create_sorting_bucket makes
bucket_objects ==
    named(objects, "Sorting_Bucket") \cup named(objects, "Sorting_Bucket_Collider")

\* the objects create_conveyor_belt leaves
conveyor_objects ==
    named(objects, "Conveyor_Path") \cup
    UNION { named(objects, Slats[k]) : k \in DOMAIN Slats }

\* the objects import_lego_parts brings
imported == UNION { named(objects, PartNames[k]) : k \in DOMAIN PartNames }

\* the four scripts ran in the order of main, each to its end, and the
\* importer found its files
organized ==
    /\ after("import_lego_parts.py")
    /\ all_succeeded
    /\ Nm("lego_parts") \in collections

\* C17, as stated: after clear_scene, create_sorting_bucket,
\* create_conveyor_belt and import_lego_parts ran in this order, the
\* collections bucket, conveyor_belt and lego_parts exist, every bucket object
\* is linked to bucket only, every conveyor object to conveyor_belt and every
\* part to lego_parts.
C17_Original ==
    organized =>
        /\ {Nm("bucket"), Nm("conveyor_belt"), Nm("lego_parts")} \subseteq collections
        /\ \A n \in bucket_objects : objects[n].colls = {Nm("bucket")}
        /\ \A n \in conveyor_objects : objects[n].colls = {Nm("conveyor_belt")}
        /\ \A n \in imported : objects[n].colls = {Nm("lego_parts")}

\* the four scripts ran, parts came, and the collider is in the main
\* collection of the scene and not in bucket
C17_Witness ==
    /\ organized
    /\ imported # {}
    /\ conveyor_objects # {}
    /\ objects[Nm("Sorting_Bucket")].colls = {Nm("bucket")}
    /\ objects[Nm("Sorting_Bucket_Collider")].colls = {Master}

\* C19, as stated: whenever main of animate_lego_physics reaches
\* start_physics_simulation, position_parts_above_bucket has been applied to
\* every part of the lego_parts collection, whether the colours raised or not.
C19_Original ==
    bpc = "start_physics_simulation" =>
        get_lego_parts(objects, collections) \subseteq positioned

\* the simulation is about to start, with a bucket and parts, and no part was
\* positioned: the colours did not raise
C19_Witness ==
    /\ bpc = "start_physics_simulation"
    /\ Nm("Sorting_Bucket") \in DOMAIN objects
    /\ worklist # {}
    /\ worklist = get_lego_parts(objects, collections)
    /\ positioned = {}

\* the name of f ends in .png, whatever the case of its letters
ends_png(f) == f.ext \in {"png", "PNG", "Png"}

\* clear_renders_dir is about to return
cleared == bpc = "clear_renders_dir" /\ worklist = {}

\* C20: all through clear_renders_dir the directories are the ones it found,
\* no file is new, every file whose name does not end in .png and every file
\* outside the root is still there; when it returns, every .png file under
\* the root is gone but the ones whose removal failed; and a missing root
\* leaves the file system as it was.
C20_OnlyPng ==
    bpc = "clear_renders_dir" =>
        /\ fs.root = fs0.root
        /\ fs.dirs = fs0.dirs
        /\ fs.files \subseteq fs0.files
        /\ \A f \in fs0.files : ~ends_png(f) => f \in fs.files
        /\ \A f \in fs0.files : f.dir = Outside => f \in fs.files
        /\ failed \subseteq fs.files
        /\ cleared =>
              \A f \in fs0.files :
                  (ends_png(f) /\ f.dir # Outside) => (f \notin fs.files \/ f \in failed)
        /\ ~fs0.root => fs = fs0

\* clear_renders_dir returns after one removal failed and another, of a name
\* in capitals, was done, with the other files of the root left
C20_Witness ==
    /\ cleared
    /\ failed = {File(Root, "snapshot", "png")}
    /\ File(Root, "OLD", "PNG") \in fs0.files \ fs.files
    /\ File("renders/frame_01", "snapshot_ortho_front", "Png") \in fs0.files \ fs.files
    /\ {File(Root, "notes", "txt"), File(Root, "png", ""),
        File("renders/frame_01", "camera", "csv"),
        File(Outside, "photo", "png")} \subseteq fs.files

\* the stage of the script of call k of the log
stageOfCall(k) == stageOf(log[k].code[1])

\* a stage run with retries returned False
failedRequired == \E k \in 1..Len(ran) : ran[k].script \in Required /\ ~ran[k].ok

\* a script file main cannot go on without was not found
missingNeeded ==
    missing \cap {"clear_scene.py", "create_sorting_bucket.py",
                  "create_conveyor_belt.py", "import_lego_parts.py",
                  "animate_lego_physics.py"} # {}

\* main returned before its last stage
aborted ==
    /\ mpc = "end"
    /\ ~completed
    /\ pc = "idle"
    /\ rpc = "none"
    /\ pending = <<>>

\* C21: the calls of main are of the stage scripts, in the order of main, a
\* script again only as a retry; nothing is sent when test_connection fails;
\* and once a clear, bucket or conveyor stage has failed in all its attempts,
\* or the file of one of the first five stages is missing, main has returned
\* without the completion message, no script of a later stage was sent, and
\* the script of a missing file was not sent.
C21_OrderAndAbort ==
    /\ \A k \in 1..Len(log) :
         /\ log[k].code \in { <<Stages[s]>> : s \in DOMAIN Stages }
         /\ \A j \in 1..(k - 1) : stageOfCall(j) <= stageOfCall(k)
         /\ stageOfCall(k) <= stage
    /\ pc # "idle" => code = <<Stages[stage]>>
    /\ (mpc # "start" /\ ~listening) => (aborted /\ log = <<>> /\ hostSeen = {})
    /\ \A k \in 1..Len(ran) :
         (ran[k].script \in Required /\ ~ran[k].ok) =>
             /\ k = Len(ran)
             /\ Stages[stage] = ran[k].script
             /\ callCount(ran[k].script) = stage_attempts(ran[k].script)
    /\ \A s \in missing : callCount(s) = 0
    /\ missingNeeded => Stages[stage] \in missing
    /\ (failedRequired \/ missingNeeded) => aborted
    /\ completed => (mpc = "end" /\ stage = Len(Stages))

\* the bucket stage failed twice and main returned: two scripts were sent in
\* three calls, and no later one
C21_Witness ==
    /\ aborted
    /\ listening
    /\ ~is_debug
    /\ ran = << [script |-> "clear_scene.py", ok |-> TRUE],
                [script |-> "create_sorting_bucket.py", ok |-> FALSE] >>
    /\ Len(log) = 3
    /\ Len(scene) = 1

\* the stages whose failure main reports and passes over
Soft ==
    {"import_lego_parts.py", "animate_lego_physics.py", "setup_lighting.py",
     "render_snapshot.py"}

\* a stage main passes over has failed
softFailed == \E k \in 1..Len(ran) : ran[k].script \in Soft /\ ~ran[k].ok

\* the stages after the first one of them that failed
afterFailure ==
    { s \in DOMAIN Stages :
        \E k \in 1..Len(ran) :
            ran[k].script \in Soft /\ ~ran[k].ok /\ stageOf(ran[k].script) < s }

C22_Continues ==
    /\ \A s \in afterFailure : callCount(Stages[s]) <= 1
    /\ (mpc = "end" /\ softFailed) =>
          /\ completed <=> ~missingNeeded
          /\ \A s \in afterFailure :
                (completed /\ Stages[s] \notin missing) => callCount(Stages[s]) = 1

trueCalls == { k \in 1..Len(log) : log[k].ret }

\* C23: run_with_retries never makes more calls than attempts; a call that
\* returned True is the last one made; and when call k is the first to return
\* True, run_with_retries returns True after exactly k calls and the k - 1
\* sleeps of 2^1, ..., 2^(k-1) seconds, none after call k.
C23_StopsAtSuccess ==
    /\ calls <= attempts
    /\ Len(log) <= calls
    /\ \A k \in trueCalls : k = Len(log) /\ rpc = "done"
    /\ trueCalls # {} =>
          /\ result = TRUE
          /\ calls = Len(log)
          /\ sleeps = Backoffs(Len(log) - 1)
    /\ (rpc = "done" /\ result) => Len(log) \in trueCalls

\* two calls failed and the third succeeded, after sleeps of 2 and 4 seconds
C23_Witness ==
    /\ rpc = "done"
    /\ result
    /\ calls = 3
    /\ sleeps = <<2, 4>>
    /\ trueCalls = {3}

\* the value execute_code returns when the line of the scripted response
\* arrives in one chunk
one_chunk == verdict(strip(first_line(plan.all)))

\* the call returned after the loop took a response from the buffer
took_response == pc = "ret" /\ response_text # None

\* C24, as stated: whatever the cuts of a newline-terminated response line
\* into chunks and whatever follows the newline, a call that takes a response
\* returns what it returns when the line arrives in one chunk.
C24_Original ==
    (took_response /\ plan.all # <<>>) =>
        IF strip(first_line(plan.all)) = <<>>
        THEN ~ret
        ELSE ret = one_chunk.ret /\ outcome = one_chunk.how

\* the line is a success object followed by bytes that are no JSON: in one
\* chunk it is an error, and cut after the object it is a success
C24_Witness ==
    /\ took_response
    /\ plan.all = <<"OS", "G", "NL">>
    /\ plan.cuts = {1}
    /\ ret
    /\ ~one_chunk.ret

\* the loop was left because recv returned b"": a response was taken from a
\* buffer that holds none
closedSeen == pc \in {"parse", "ret"} /\ response_text # None /\ ~complete(buffer)

\* what holds once the close was seen, and of a response read from a host
\* that closed
C25_Decides ==
    /\ closedSeen =>
          /\ peerClosed
          /\ response_text = Some(strip(buffer))
          /\ now < deadline + HalfSec
    /\ (closedSeen /\ pc = "ret") =>
          /\ strip(buffer) = <<>> => (~ret /\ outcome \in {"timeout", "error"})
          /\ strip(buffer) # <<>> =>
                (ret = verdict(strip(buffer)).ret /\ outcome = verdict(strip(buffer)).how)
    /\ (pc = "ret" /\ peerClosed /\ response_text # None
           /\ json_loads(response_text[1]) \in Objects) =>
          (ret <=> json_loads(response_text[1]) = "OS")

\* a recv on a closed connection with nothing left to read ends the loop, and
\* no recv is made after the loop
C25_StopsReading ==
    nrecv' # nrecv =>
        /\ pc = "recv"
        /\ (peerClosed /\ stream = <<>>) => (pc' = "parse" /\ now' < now + poll)

\* C25: when recv finds the connection closed by the host the loop ends at
\* once, within the wait of that recv and so less than half a second after the
\* deadline at the latest, with no further recv; with nothing or only
\* whitespace buffered the call returns False, by the path of a timeout or of
\* an error, and otherwise what the buffered text dictates; a complete JSON
\* object received from a host that closed gives True exactly when its status
\* is success.
C25_HostCloses == [] C25_Decides /\ [][C25_StopsReading]_vars

\* the host wrote whitespace and closed: the call returned False, here before
\* the deadline
C25_Witness ==
    /\ pc = "ret"
    /\ closedSeen
    /\ buffer = <<"SP">>
    /\ response_text = Some(<<>>)
    /\ ~ret
    /\ now < deadline

\* the slats in bpy.data.objects
slat_objects == UNION { named(objects, Slats[k]) : k \in DOMAIN Slats }

methods_tried == [k \in DOMAIN tried |-> tried[k].method]

\* C27: start_physics_simulation tries bake_to_keyframes, world_bake,
\* ptcache.bake_all, ptcache.bake and manual_per_frame_sampling in this order;
\* a method is tried only when every method before it has raised, none is
\* tried after one that has not raised, and whatever raises the function
\* returns: it is inside the bake only while a method is left to try, and the
\* script that called it ends well.
C27_BakeOrder ==
    /\ Len(tried) <= Len(Methods)
    /\ methods_tried = SubSeq(Methods, 1, Len(tried))
    /\ \A k \in DOMAIN tried : k < Len(tried) => tried[k].raised
    /\ bpc = "bake" =>
          /\ Len(tried) < Len(Methods)
          /\ \A k \in DOMAIN tried : tried[k].raised
    /\ (bpc = "idle" /\ runs # <<>> /\ lastRun.script = "animate_lego_physics.py") =>
          lastRun.ok

\* the four operators have raised, the manual sampling has run and the script
\* has ended well
C27_Witness ==
    /\ after("animate_lego_physics.py")
    /\ Len(tried) = Len(Methods)
    /\ \A k \in 1..(Len(Methods) - 1) : tried[k].raised
    /\ tried[Len(Methods)].method = "manual_per_frame_sampling"
    /\ ~tried[Len(Methods)].raised

\* an iteration of the dolly loop has run
iterated == cam.pc = "loop" /\ cam'.iters = cam.iters + 1

\* the iteration has moved the camera
moved == iterated /\ cam'.fill # NoFill /\ cam'.fill < TARGET_FILL

\* the loop runs at most MAX_DOLLY_STEPS iterations, and is left at the first
\* fill of TARGET_FILL or more
C28_Bounded ==
    /\ cam.iters <= MAX_DOLLY_STEPS
    /\ cam.pc = "loop" =>
          /\ cam.iters < MAX_DOLLY_STEPS
          /\ cam.iters > 0 => (cam.fill # NoFill /\ cam.fill < TARGET_FILL)

\* an iteration with a fill of TARGET_FILL or more leaves the loop and the
\* camera where it is
stops_at_target ==
    (iterated /\ cam'.fill >= TARGET_FILL) =>
        (cam'.pc = "close" /\ cam'.distance = cam.distance)

C28_OriginalStep ==
    /\ stops_at_target
    /\ moved =>
          /\ cam'.distance <= cam.distance
          /\ 2 * cam'.distance >= cam.distance
          /\ cam'.distance >= DistFloor

C28_Step ==
    /\ stops_at_target
    /\ moved =>
          /\ cam'.distance <= max(cam.distance, DistFloor)
          /\ 2 * cam'.distance >= cam.distance
          /\ cam'.distance >= DistFloor

C29_Original == (pc = "ret" /\ nsock = 1) => sock = "closed"

\* the returns that leave the socket open: connect was refused, or the
\* deadline passed inside the loop
C29_Witness ==
    /\ pc = "ret"
    /\ nsock = 1
    /\ sock = "open"
    /\ ~ret
    /\ \/ ~listening /\ outcome = "error" /\ sent = <<>>
       \/ listening /\ outcome = "timeout" /\ response_text = None

\* the returns after the loop, where the socket is closed: success, an error
\* answer, an empty response and an unparsable one
closedReturn ==
    (pc = "ret" /\ nsock = 1 /\ response_text # None) => sock = "closed"

\* the ways a call ends
Outcomes == {"success", "failed", "error", "timeout", "nofile", "unreadable"}

\* C30: execute_code and execute_script_file let no exception go: whatever the
\* host does (refusal, silence, early close, garbage, a JSON value that is no
\* object) and whether the script file is missing or unreadable, the call is
\* at a position of the code from which it goes on, or has returned True or
\* False; a missing script file gives False with no socket created, no
\* connection tried and nothing sent.
C30_NeverRaises ==
    /\ pc \in {"idle", "connect", "send", "loop", "recv", "parse", "ret"}
    /\ pc \in {"connect", "send", "loop", "recv", "parse"} => ENABLED Client
    /\ pc = "ret" =>
          /\ ret \in BOOLEAN
          /\ outcome \in Outcomes
          /\ ret <=> outcome = "success"
          /\ ~script_exists =>
                (~ret /\ outcome = "nofile" /\ nsock = 0 /\ nconnect = 0 /\ sent = <<>>)
          /\ outcome = "unreadable" => (~ret /\ nsock = 0 /\ nconnect = 0)
    /\ \A k \in DOMAIN log : log[k].ret \in BOOLEAN /\ log[k].outcome \in Outcomes

\* the host has answered by a JSON value that is no object, and the call on
\* the script file has returned False
C30_Witness ==
    /\ pc = "ret"
    /\ rpc = "wait"
    /\ script_exists
    /\ ~ret
    /\ outcome = "error"
    /\ response_text # None
    /\ response_text # Some(<<>>)
    /\ json_loads(response_text[1]) = "V"

====
